---- MODULE Spec2Model ----
(***************************************************************************)
(* A model of StarGazer's background engine: the reconciliation (diff) of *)
(* the remote starred repositories against the local table                *)
(* (core/sync_service.py), the quiet-hours test and the periodic scheduler *)
(* loop (core/scheduler.py), the AI summary batch and its candidate        *)
(* selection (core/summary_service.py, core/ai_service.py), the retried    *)
(* request and the paged fetch of the GitHub client (core/github.py), the  *)
(* notifier factory, the message composer and the four channels            *)
(* (core/notifiers), the test push of the settings update                  *)
(* (api/settings.py), the manual sync (api/stars.py) and the manual        *)
(* summary task (api/summary.py).                                          *)
(*                                                                         *)
(* Strings of the program (names, URLs, ISO timestamps) are modelled by    *)
(* small integers: the code only ever compares them for equality.          *)
(***************************************************************************)
EXTENDS Integers, Sequences, FiniteSets, TLC

VARIABLES
    \* ---- reconciliation as a pure function (SpecDiff) ----
    github_repos_data,  \* the list fetched from GitHub: a sequence of dicts
    db_repos,           \* the local Repo objects, keyed by primary key
    diff_out,           \* what _diff_and_prepare_operations returned last
    diff_first,         \* what its first call returned
    diff_before,        \* db_repos as it was when the last diff started
    diff_pc,            \* "input" | "diffed" | "applied" | "rediffed"
    \* ---- quiet-hours test as a pure function (SpecDnd) ----
    dnd_in,             \* the arguments and the clock reading
    dnd_out,            \* the boolean _is_in_dnd_hours returned
    dnd_pc,             \* "input" | "done"
    \* ---- the sleep computation as a pure function (SpecSleep) ----
    sleep_in,           \* the settings, the clock reading and the jitter drawn
    sleep_out,          \* sleep_seconds, as the finally block computed it
    sleep_pc,           \* "input" | "done"
    \* ---- one run of the AI batch (SpecAi) ----
    ai_in,              \* the repos handed to summarize_repos_batch, the settings
    ai_db,              \* the AI columns of the repo table, as committed
    ai_run,             \* where summarize_repos_batch stands, and its locals
    \* ---- the candidate selection as a pure function (SpecSelect) ----
    sel_in,             \* the repo table, updated_repo_ids, what GitHub answers
    sel_out,            \* what get_repos_to_summarize returned
    sel_pc,             \* "input" | "done"
    \* ---- one request of the GitHub client (SpecRequest) ----
    req_in,             \* what the server answers to each successive attempt
    req_run,            \* where the retried _request stands
    \* ---- the notify block of a cycle on its own (SpecNotify) ----
    notify_run,         \* the settings, the repos to notify, the sends, the session
    \* ---- the composer of a notification as a pure function (SpecCompose) ----
    compose_run,        \* the arguments of create_notification_message and its result
    \* ---- one send of a notification channel (SpecChannel) ----
    send_run,           \* the channel, its config, what send did and returned
    \* ---- the test push of a settings update (SpecTestPush) ----
    push_test,          \* the update, the attempts of the test send, the response
    \* ---- the validation of an AI answer (SpecSummaryText) ----
    sum_text,           \* the answer of the AI backend and what became of it
    \* ---- one fetch of the starred repositories (SpecFetchAll) ----
    fetch_all,          \* the pages, how each request ended, what was staged
    \* ---- the manually started summary task (SpecTask) ----
    task,               \* _summary_status and the requests and the task in flight
    \* ---- the scheduler loop and the database (Spec) ----
    pc,                 \* where periodic_sync_scheduler stands
    db,                 \* the committed database: the repo table, the settings row
    sess,               \* the cycle's Session: what it has staged and not committed
    fn_settings,        \* app_settings inside _perform_sync_and_notify_actions
    app_settings,       \* app_settings of the loop (None until the call returns)
    updated_repos,      \* updated_repos, as run_full_sync returned it
    to_notify,          \* the favorite repos whose sends are in flight
    cancel_at,          \* "none", or where the loop stood when it was cancelled
    break_pending,      \* the loop caught CancelledError and is leaving by break
    sleep_kind,         \* how the last sleep_seconds was computed
    cyc                 \* a record of the current cycle, for the properties

diffVars ==
    <<github_repos_data, db_repos, diff_out, diff_first, diff_before, diff_pc>>
aiVars == <<ai_in, ai_db, ai_run>>
auxVars == <<sel_in, sel_out, sel_pc, req_in, req_run>>
dndVars ==
    <<dnd_in, dnd_out, dnd_pc, sleep_in, sleep_out, sleep_pc, aiVars, auxVars>>
schedVars ==
    <<pc, db, sess, fn_settings, app_settings, updated_repos, to_notify,
      cancel_at, break_pending, sleep_kind, cyc>>
extVars ==
    <<notify_run, compose_run, send_run, push_test, sum_text, fetch_all, task>>
vars == <<diffVars, dndVars, schedVars, extVars>>

(***************************************************************************)
(* Bounds of the model.                                                    *)
(***************************************************************************)
MaxId == 2          \* repository ids are 1..MaxId
MaxFailed == 2      \* the failed-push counter is followed up to this value

RepoIds == 1..MaxId

(***************************************************************************)
(* Repositories.                                                           *)
(***************************************************************************)
\* The six fields whose change makes an update "substantive".
substantive_fields ==
    {"name", "full_name", "description", "language", "html_url", "pushed_at"}

\* The two fields that are synced without being substantive.
count_fields == {"stargazers_count", "starred_at"}

\* Every field a reconciliation may write.
SyncedFields ==
    {"name", "full_name", "description", "language", "html_url", "pushed_at",
     "stargazers_count", "starred_at"}

FAVORITE == "_favorite"

\* A cleaned GitHub dict as get_all_starred_repos builds it; every field of
\* repository id at value 0, but those of `changed` at value 1.
GithubRepo(id, changed) ==
    [id |-> id,
     name |-> IF "name" \in changed THEN 1 ELSE 0,
     full_name |-> IF "full_name" \in changed THEN 1 ELSE 0,
     html_url |-> IF "html_url" \in changed THEN 1 ELSE 0,
     description |-> IF "description" \in changed THEN 1 ELSE 0,
     language |-> IF "language" \in changed THEN 1 ELSE 0,
     stargazers_count |-> IF "stargazers_count" \in changed THEN 1 ELSE 0,
     pushed_at |-> IF "pushed_at" \in changed THEN 1 ELSE 0,
     starred_at |-> IF "starred_at" \in changed THEN 1 ELSE 0]

\* Repo.model_validate(repo_data): a new row, its user fields at their defaults.
RepoFromGithub(g) ==
    [id |-> g.id, name |-> g.name, full_name |-> g.full_name,
     html_url |-> g.html_url, description |-> g.description,
     language |-> g.language, stargazers_count |-> g.stargazers_count,
     pushed_at |-> g.pushed_at, starred_at |-> g.starred_at,
     alias |-> 0, tags |-> {}]

\* A local row of repository id, all synced fields at 0.
LocalRepo(id, tags) == [RepoFromGithub(GithubRepo(id, {})) EXCEPT !.tags = tags]

\* The ids of a collection of repos.
IdsOf(repos) == {r.id : r \in repos}

\* A value that is no repository (a dict lookup that finds nothing).
NoRepo == [id |-> 0]

(***************************************************************************)
(* _diff_and_prepare_operations                                            *)
(***************************************************************************)
\* {repo['id']: repo for repo in github_repos_data}: a later entry of the list
\* replaces an earlier one with the same id.
github_repos_map(data) ==
    [i \in {data[k].id : k \in DOMAIN data} |->
        data[CHOOSE k \in DOMAIN data :
                /\ data[k].id = i
                /\ \A j \in DOMAIN data : data[j].id = i => j <= k]]

\* A variant that also counts the star count as substantive.
has_substantive_update_stars(db_repo, github_repo) ==
    \E field \in substantive_fields \cup {"stargazers_count"} :
        db_repo[field] # github_repo[field]

\* The inner loop over substantive_fields: has any of them changed?
has_substantive_update(db_repo, github_repo) ==
    \E field \in substantive_fields : db_repo[field] # github_repo[field]

\* A variant that detects a changed pushed_at but does not store it.
SyncRepo_keeps_pushed_at(db_repo, github_repo) ==
    [field \in DOMAIN db_repo |->
        IF /\ field \in (substantive_fields \cup count_fields) \ {"pushed_at"}
           /\ db_repo[field] # github_repo[field]
        THEN github_repo[field]
        ELSE db_repo[field]]

\* A variant that replaces the row by a row validated anew from the GitHub
\* dict, as for a repo that is added.
SyncRepo_validates_anew(db_repo, github_repo) ==
    [field \in DOMAIN db_repo |->
        IF field \in DOMAIN RepoFromGithub(github_repo)
        THEN RepoFromGithub(github_repo)[field]
        ELSE db_repo[field]]

\* The setattr calls of one pass of the loop body: the substantive fields,
\* the star count and starred_at are overwritten where they differ.
SyncRepo(db_repo, github_repo) ==
    [field \in DOMAIN db_repo |->
        IF /\ field \in substantive_fields \cup count_fields
           /\ db_repo[field] # github_repo[field]
        THEN github_repo[field]
        ELSE db_repo[field]]

\* A variant that appends a common repo only when one of its fields changed.
InToUpdate_only_changed(db_repo, github_repo) ==
    \E field \in substantive_fields \cup count_fields :
        db_repo[field] # github_repo[field]

\* to_update.append(db_repo) is not guarded: every common repo is appended.
InToUpdate(db_repo, github_repo) == TRUE

\* The whole function. The Repo objects are mutated in place, so the result
\* also carries the objects as they are afterwards (repos).
diff_and_prepare_operations(data, repos) ==
    LET gmap == github_repos_map(data)
        github_ids == DOMAIN gmap
        db_ids == DOMAIN repos
        add_ids == github_ids \ db_ids
        remove_ids == db_ids \ github_ids
        common_ids == github_ids \cap db_ids
        synced == [i \in db_ids |->
                      IF i \in common_ids THEN SyncRepo(repos[i], gmap[i])
                                          ELSE repos[i]]
    IN  [to_add |-> {gmap[i] : i \in add_ids},
         to_update |-> {synced[i] : i \in
                          {c \in common_ids : InToUpdate(repos[c], gmap[c])}},
         to_remove_ids |-> remove_ids,
         substantive_updated_repos |-> {synced[i] : i \in
                          {c \in common_ids :
                              has_substantive_update(repos[c], gmap[c])}},
         repos |-> synced]

\* Steps 4 of run_full_sync: the delete statement, session.add of every new
\* row and of every updated object. The result is the table as the session
\* sees it afterwards.
StageOperations(table, ops) ==
    LET kept == DOMAIN table \ ops.to_remove_ids
        added == {g.id : g \in ops.to_add}
        updated == {r.id : r \in ops.to_update}
    IN  [i \in kept \cup added |->
            IF i \in added /\ i \notin kept
            THEN RepoFromGithub(CHOOSE g \in ops.to_add : g.id = i)
            ELSE IF i \in updated
                 THEN CHOOSE r \in ops.to_update : r.id = i
                 ELSE table[i]]

(***************************************************************************)
(* The settings row, the session and the scheduler's idle values.          *)
(***************************************************************************)
\* AppSettings with its column defaults. The token and the push config are
\* kept as "is set"; the AI switches are the ones scheduler.py reads.
DefaultSettings ==
    [github_access_token |-> FALSE,
     is_background_sync_enabled |-> TRUE,
     sync_interval_hours |-> 2,
     is_push_enabled |-> FALSE,
     push_channel |-> "none",
     push_config |-> FALSE,
     is_dnd_enabled |-> FALSE,
     dnd_start_hour |-> 23,
     dnd_end_hour |-> 7,
     failed_push_count |-> 0,
     is_ai_enabled |-> FALSE,
     is_auto_analysis_enabled |-> FALSE]

\* app_settings = None.
NoSettings == [loaded |-> FALSE]

\* No Session is open (or it was closed, which discards what was staged).
ClosedSession == [open |-> FALSE]

\* What is remembered of a cycle: the persisted state and the settings it
\* met at entry, what it fetched, how its sends ended and how it ended.
NoCycle ==
    [pre |-> [repos |-> <<>>, failed_push_count |-> 0],
     entry |-> [settings |-> NoSettings, now_time |-> 0],
     fetches |-> 0,
     fetched |-> <<>>,
     staged |-> FALSE,
     sends |-> <<>>,
     ai |-> "none",
     outcome |-> "none",
     fault_at |-> "none",
     sleeps |-> 0,
     entry_push |-> FALSE,
     reread_push |-> FALSE,
     reset |-> FALSE,
     stats |-> [added |-> 0],
     ai_ids |-> {}]

SchedIdle ==
    /\ pc = "off"
    /\ db = [repos |-> <<>>, settings |-> DefaultSettings]
    /\ sess = ClosedSession
    /\ fn_settings = NoSettings
    /\ app_settings = NoSettings
    /\ updated_repos = {}
    /\ to_notify = {}
    /\ cancel_at = "none"
    /\ break_pending = FALSE
    /\ sleep_kind = "none"
    /\ cyc = NoCycle

(***************************************************************************)
(* SpecDiff: the reconciliation on its own, on every bounded input.        *)
(***************************************************************************)
\* The field sets by which a remote repo may differ from the local row.
ChangeSets ==
    {{}} \cup {{f} : f \in SyncedFields}
         \cup {{"pushed_at", "stargazers_count"}, SyncedFields}

\* What one repository id may look like on the two sides.
ItemCases(i) ==
    {[remote |-> NoRepo, local |-> NoRepo],
     [remote |-> GithubRepo(i, {}), local |-> NoRepo]}
    \cup {[remote |-> NoRepo, local |-> LocalRepo(i, t)] :
            t \in {{}, {FAVORITE}}}
    \cup {[remote |-> GithubRepo(i, ch), local |-> LocalRepo(i, t)] :
            ch \in ChangeSets, t \in {{}, {FAVORITE}}}

\* The records of a per-id choice, as a list in ascending id order.
RECURSIVE RemoteList(_, _)
RemoteList(cases, n) ==
    IF n = 0 THEN <<>>
    ELSE IF cases[n].remote = NoRepo THEN RemoteList(cases, n - 1)
         ELSE Append(RemoteList(cases, n - 1), cases[n].remote)

NoDiff == [to_add |-> {}, to_update |-> {}, to_remove_ids |-> {},
           substantive_updated_repos |-> {}, repos |-> <<>>]

DiffIdle ==
    /\ github_repos_data = <<>>
    /\ db_repos = <<>>
    /\ diff_out = NoDiff
    /\ diff_first = NoDiff
    /\ diff_before = <<>>
    /\ diff_pc = "off"

NoSleepInput ==
    [settings |-> NoSettings, now_time |-> 0, jitter |-> 0]

SleepIdle ==
    /\ sleep_in = NoSleepInput
    /\ sleep_out = 0
    /\ sleep_pc = "off"

\* The locals of summarize_repos_batch before it is called.
NoAiRun ==
    [pc |-> "off", batch_idx |-> 0, i |-> 0, group |-> {}, results |-> <<>>,
     success_count |-> 0, failed_count |-> 0, raised |-> "none",
     started |-> {}, processed |-> {}, delay |-> 0, notices |-> 0,
     ai_calls |-> 0, readme_fetches |-> 0]

AiIdle ==
    /\ ai_in = [total |-> 0]
    /\ ai_db = <<>>
    /\ ai_run = NoAiRun

\* get_repos_to_summarize before it is called.
NoSelection == [repos |-> {}, readme_cache |-> <<>>, lookups |-> 0]

SelIdle ==
    /\ sel_in = [table |-> <<>>]
    /\ sel_out = NoSelection
    /\ sel_pc = "off"

\* _request before it is called.
NoRequest == [pc |-> "off", tries |-> 0, outcome |-> "none"]

ReqIdle ==
    /\ req_in = <<>>
    /\ req_run = NoRequest

AuxIdle == SelIdle /\ ReqIdle

\* The notify block, a channel's send, the test push, the validation of an
\* answer, a fetch and the summary task before they are entered.
NotifyIdle == notify_run = [pc |-> "off"]

ComposeIdle == compose_run = [pc |-> "off"]

ChannelIdle == send_run = [pc |-> "off"]

TestPushIdle == push_test = [pc |-> "off"]

SummaryTextIdle == sum_text = [pc |-> "off"]

FetchAllIdle == fetch_all = [pc |-> "off"]

TaskIdle == task = [pc |-> "off"]

ExtIdle ==
    /\ NotifyIdle
    /\ ComposeIdle
    /\ ChannelIdle
    /\ TestPushIdle
    /\ SummaryTextIdle
    /\ FetchAllIdle
    /\ TaskIdle

DndOff ==
    /\ dnd_in = [dnd_enabled |-> FALSE, start_hour |-> 0, end_hour |-> 0,
                 hour |-> 0, minute |-> 0]
    /\ dnd_out = FALSE
    /\ dnd_pc = "off"

DndIdle ==
    /\ dnd_in = [dnd_enabled |-> FALSE, start_hour |-> 0, end_hour |-> 0,
                 hour |-> 0, minute |-> 0]
    /\ dnd_out = FALSE
    /\ dnd_pc = "off"
    /\ SleepIdle
    /\ AiIdle
    /\ AuxIdle

InitDiff ==
    /\ \E cases \in [RepoIds -> UNION {ItemCases(i) : i \in RepoIds}] :
          /\ \A i \in RepoIds : cases[i] \in ItemCases(i)
          /\ github_repos_data = RemoteList(cases, MaxId)
          /\ db_repos = [i \in {j \in RepoIds : cases[j].local # NoRepo} |->
                            cases[i].local]
    /\ diff_out = NoDiff
    /\ diff_first = NoDiff
    /\ diff_before = <<>>
    /\ diff_pc = "input"
    /\ DndIdle
    /\ SchedIdle
    /\ ExtIdle

\* One call of _diff_and_prepare_operations(github_repos_data, db_repos).
RunDiff ==
    /\ diff_pc \in {"input", "applied"}
    /\ diff_out' = diff_and_prepare_operations(github_repos_data, db_repos)
    /\ diff_first' = IF diff_pc = "input" THEN diff_out' ELSE diff_first
    /\ diff_before' = db_repos
    /\ db_repos' = diff_out'.repos
    /\ diff_pc' = IF diff_pc = "input" THEN "diffed" ELSE "rediffed"
    /\ UNCHANGED <<github_repos_data, dndVars, schedVars, extVars>>

\* The operations are staged and committed: db_repos becomes the new table.
ApplyDiff ==
    /\ diff_pc = "diffed"
    /\ db_repos' = StageOperations(db_repos, diff_out)
    /\ diff_pc' = "applied"
    /\ UNCHANGED <<github_repos_data, diff_out, diff_first, diff_before, dndVars,
                   schedVars, extVars>>

NextDiff == RunDiff \/ ApplyDiff

SpecDiff == InitDiff /\ [][NextDiff]_vars

(***************************************************************************)
(* _is_in_dnd_hours                                                        *)
(***************************************************************************)
\* datetime.time(hour, minute), as the minute of the day: time objects are
\* compared in that order.
TimeOfDay(hour, minute) == hour * 60 + minute

\* A variant whose same-day window excludes its first instant.
is_in_dnd_hours_open_start(dnd_enabled, start_hour, end_hour, now_time) ==
    IF ~dnd_enabled \/ start_hour = end_hour
    THEN FALSE
    ELSE LET start_time == TimeOfDay(start_hour, 0)
             end_time == TimeOfDay(end_hour, 0)
         IN  IF start_time < end_time
             THEN start_time < now_time /\ now_time < end_time
             ELSE now_time >= start_time \/ now_time < end_time

\* The function, with the clock reading now_time = datetime.now().time()
\* made an argument.
is_in_dnd_hours(dnd_enabled, start_hour, end_hour, now_time) ==
    IF ~dnd_enabled \/ start_hour = end_hour
    THEN FALSE
    ELSE LET start_time == TimeOfDay(start_hour, 0)
             end_time == TimeOfDay(end_hour, 0)
         IN  IF start_time < end_time
             THEN start_time <= now_time /\ now_time < end_time
             ELSE now_time >= start_time \/ now_time < end_time

(***************************************************************************)
(* SpecDnd: the quiet-hours test on its own, on every window and on a      *)
(* clock read at the minutes ClockMinutes of every hour.                   *)
(***************************************************************************)
Hours == 0..23

ClockMinutes == {0, 30, 59}

InitDnd ==
    /\ dnd_in \in [dnd_enabled : BOOLEAN, start_hour : Hours, end_hour : Hours,
                   hour : Hours, minute : ClockMinutes]
    /\ dnd_out = FALSE
    /\ dnd_pc = "input"
    /\ SleepIdle
    /\ AiIdle
    /\ AuxIdle
    /\ DiffIdle
    /\ ExtIdle
    /\ SchedIdle

\* One call of _is_in_dnd_hours.
EvalDnd ==
    /\ dnd_pc = "input"
    /\ dnd_pc' = "done"
    /\ dnd_out' = is_in_dnd_hours(dnd_in.dnd_enabled, dnd_in.start_hour,
                                  dnd_in.end_hour,
                                  TimeOfDay(dnd_in.hour, dnd_in.minute))
    /\ UNCHANGED <<dnd_in, sleep_in, sleep_out, sleep_pc, aiVars, auxVars,
                   diffVars, extVars, schedVars>>

NextDnd == EvalDnd

SpecDnd == InitDnd /\ [][NextDnd]_vars

(***************************************************************************)
(* The sleep computation of the finally block. Instants are seconds since  *)
(* the midnight that began the day of `now`.                               *)
(***************************************************************************)
SecondsPerHour == 3600

SecondsPerDay == 86400

Max(a, b) == IF a >= b THEN a ELSE b

\* now.replace(hour=dnd_end, minute=0, second=0, microsecond=0), a day added
\* when now.time() >= time(dnd_start, 0).
end_of_dnd(dnd_start, dnd_end, now_time) ==
    dnd_end * SecondsPerHour
        + (IF now_time >= TimeOfDay(dnd_start, 0) THEN SecondsPerDay ELSE 0)

\* sleep_seconds, for the settings a the loop holds (None after a cycle that
\* raised), the clock reading now_time and the jitter drawn.
sleep_seconds(a, now_time, jitter) ==
    IF a = NoSettings THEN 2 * SecondsPerHour
    ELSE IF /\ a.is_background_sync_enabled
            /\ is_in_dnd_hours(a.is_dnd_enabled, a.dnd_start_hour,
                               a.dnd_end_hour, now_time)
         THEN Max(0, end_of_dnd(a.dnd_start_hour, a.dnd_end_hour, now_time)
                        - now_time * 60) + jitter
         ELSE a.sync_interval_hours * SecondsPerHour

(***************************************************************************)
(* SpecSleep: the sleep computation on its own, on the windows between the *)
(* hours WindowHours, at the minutes ClockMinutes of every hour.           *)
(***************************************************************************)
WindowHours == {0, 7, 9, 18, 23}

SyncIntervals == {1, 2, 6}

\* random.randint(1, 10).
JitterChoices == 1..10

InitSleep ==
    /\ \E sync \in BOOLEAN, dnd \in BOOLEAN, start \in WindowHours,
          end \in WindowHours, interval \in SyncIntervals,
          hour \in Hours, minute \in ClockMinutes :
          sleep_in = [settings |-> [DefaultSettings EXCEPT
                                      !.is_background_sync_enabled = sync,
                                      !.sync_interval_hours = interval,
                                      !.is_dnd_enabled = dnd,
                                      !.dnd_start_hour = start,
                                      !.dnd_end_hour = end],
                      now_time |-> TimeOfDay(hour, minute),
                      jitter |-> 0]
    /\ sleep_out = 0
    /\ sleep_pc = "input"
    /\ dnd_in = [dnd_enabled |-> FALSE, start_hour |-> 0, end_hour |-> 0,
                 hour |-> 0, minute |-> 0]
    /\ dnd_out = FALSE
    /\ dnd_pc = "off"
    /\ AiIdle
    /\ AuxIdle
    /\ DiffIdle
    /\ ExtIdle
    /\ SchedIdle

\* One pass of the finally block after a cycle that returned its settings.
ComputeSleep ==
    /\ sleep_pc = "input"
    /\ \E jitter \in JitterChoices :
          /\ sleep_in' = [sleep_in EXCEPT !.jitter = jitter]
          /\ sleep_out' = sleep_seconds(sleep_in.settings, sleep_in.now_time,
                                        jitter)
    /\ sleep_pc' = "done"
    /\ UNCHANGED <<dnd_in, dnd_out, dnd_pc, aiVars, auxVars, diffVars, extVars,
                   schedVars>>

NextSleep == ComputeSleep

SpecSleep == InitSleep /\ [][NextSleep]_vars

(***************************************************************************)
(* The AI batch: summarize_repos_batch and the summarize_single_repo it    *)
(* runs for every repo (core/summary_service.py). What the README fetch    *)
(* and the AI backend answer for a repo is an input of the run.            *)
(***************************************************************************)
MaxAiRepos == 3

\* ai_concurrency is validated to lie in 1 .. 5.
MaxConcurrency == 5

batch_size == 50

GroupDelaySeconds == 20

BatchDelaySeconds == 60

\* How the README fetch and the AI calls of one repo end: a summary, no
\* README (404), HTTP 429 at every AI call, an AI endpoint or network
\* fault, an empty or too short AI answer, HTTP 401 from the AI backend,
\* HTTP 401 from GitHub, another GitHub fault, any other exception (here:
\* the write of the summary raises).
ItemKinds ==
    {"summarized", "no_readme", "rate_limited", "endpoint_fault",
     "empty_content", "invalid_api_key", "invalid_github_token",
     "github_fault", "unknown_error"}

\* The AI columns of a repo that was never analyzed, and of one that was.
NeverAnalyzed ==
    [ai_summary |-> "none", analyzed_at |-> "none", analysis_failed |-> FALSE,
     readme_sha |-> "none"]

AnalyzedBefore ==
    [ai_summary |-> "old", analyzed_at |-> "old", analysis_failed |-> FALSE,
     readme_sha |-> "old"]

\* What get_readme_content gives for a repo of the kind: the README, None
\* (404), or the exception it raises.
ReadmeOf(kind) ==
    CASE kind = "no_readme" -> "None"
      [] kind = "invalid_github_token" -> "InvalidGitHubTokenError"
      [] kind = "github_fault" -> "GitHubApiError"
      [] OTHER -> "content"

\* What the AI backend answers to each successive call for a repo of the
\* kind: a summary, a text too short, an HTTP error status.
AnswersOf(kind) ==
    CASE kind = "rate_limited" -> <<"429", "429", "429", "429">>
      [] kind = "endpoint_fault" -> <<"500">>
      [] kind = "empty_content" -> <<"too short">>
      [] kind = "invalid_api_key" -> <<"401">>
      [] OTHER -> <<"summary">>

\* AIService.summarize_repository over _call_ai_api: the summary, or the
\* exception the answer is classified as.
summarize_repository(answer) ==
    CASE answer = "summary" -> "summary"
      [] answer \in {"too short", "empty"} -> "EmptyContentError"
      [] answer = "401" -> "InvalidApiKeyError"
      [] answer = "429" -> "RateLimitError"
      [] answer \in {"timeout", "connect error"} -> "NetworkTimeoutError"
      [] OTHER -> "ApiEndpointError"

retry_delays == <<30, 60, 120>>

\* A variant that gives up after the second attempt.
handle_rate_limit_with_retry_two(answers) ==
    IF summarize_repository(answers[1]) # "RateLimitError"
    THEN [result |-> summarize_repository(answers[1]), attempts |-> 1]
    ELSE IF summarize_repository(answers[2]) # "RateLimitError"
    THEN [result |-> summarize_repository(answers[2]), attempts |-> 2]
    ELSE [result |-> "None", attempts |-> 2]

\* AIService.handle_rate_limit_with_retry: one call per entry of
\* retry_delays; a RateLimitError is slept over and the call repeated,
\* after the last one None is returned; what else a call returns or raises
\* is returned or raised.
handle_rate_limit_with_retry(answers) ==
    LET RECURSIVE try(_)
        try(attempt) ==
            IF attempt > Len(retry_delays)
            THEN [result |-> "None", attempts |-> Len(retry_delays)]
            ELSE IF summarize_repository(answers[attempt]) = "RateLimitError"
            THEN IF attempt < Len(retry_delays)
                 THEN try(attempt + 1)
                 ELSE [result |-> "None", attempts |-> attempt]
            ELSE [result |-> summarize_repository(answers[attempt]),
                  attempts |-> attempt]
    IN  try(1)

\* A variant whose handler for an empty AI answer writes no timestamp.
RowAfter_empty_retryable(row, outcome) ==
    CASE outcome = "no_readme" ->
            [ai_summary |-> "none", analyzed_at |-> "now",
             analysis_failed |-> FALSE, readme_sha |-> "none"]
      [] outcome = "summary" ->
            [ai_summary |-> "new", analyzed_at |-> "now",
             analysis_failed |-> FALSE, readme_sha |-> "new"]
      [] outcome \in {"InvalidApiKeyError", "InvalidGitHubTokenError"} -> row
      [] OTHER ->
            [row EXCEPT !.analysis_failed = TRUE, !.analyzed_at = "none"]

\* The row summarize_single_repo commits, in a session of its own, for
\* what the README fetch and the AI call came to.
RowAfter(row, outcome) ==
    CASE outcome = "no_readme" ->
            [ai_summary |-> "none", analyzed_at |-> "now",
             analysis_failed |-> FALSE, readme_sha |-> "none"]
      [] outcome = "summary" ->
            [ai_summary |-> "new", analyzed_at |-> "now",
             analysis_failed |-> FALSE, readme_sha |-> "new"]
      [] outcome \in {"None", "ApiEndpointError", "NetworkTimeoutError",
                      "GitHubApiError", "Exception"} ->
            [row EXCEPT !.analysis_failed = TRUE, !.analyzed_at = "none"]
      [] outcome = "EmptyContentError" ->
            [row EXCEPT !.analysis_failed = TRUE, !.analyzed_at = "now"]
      [] outcome \in {"InvalidApiKeyError", "InvalidGitHubTokenError"} -> row

\* A variant whose handlers re-raise what they caught.
ResultOf_reraises(outcome) ==
    IF outcome \in {"no_readme", "summary"} THEN "True"
    ELSE IF outcome = "None" THEN "False" ELSE outcome

\* What summarize_single_repo returns, or the exception that leaves it.
ResultOf(outcome) ==
    CASE outcome \in {"no_readme", "summary"} -> "True"
      [] outcome \in {"InvalidApiKeyError", "InvalidGitHubTokenError"} ->
            outcome
      [] OTHER -> "False"

\* summarize_single_repo: the README is fetched; with a README the AI
\* backend is called through the retry helper; the row is committed, the
\* error notice of a credential fault is sent if a notifier is configured.
summarize_single_repo(row, kind, notifier) ==
    LET readme == ReadmeOf(kind)
        ai == IF readme = "content"
              THEN handle_rate_limit_with_retry(AnswersOf(kind))
              ELSE [result |-> "not called", attempts |-> 0]
        outcome == IF readme = "None" THEN "no_readme"
                   ELSE IF readme # "content" THEN readme
                   ELSE IF kind = "unknown_error" THEN "Exception"
                   ELSE ai.result
    IN  [row |-> RowAfter(row, outcome),
         result |-> ResultOf(outcome),
         notice |-> notifier /\ outcome \in {"InvalidApiKeyError",
                                             "InvalidGitHubTokenError"},
         ai_calls |-> ai.attempts,
         readme_fetches |-> 1]

\* A variant for which only the AI credential is fatal.
is_fatal_api_key_only(result) == result = "InvalidApiKeyError"

\* isinstance(result, (InvalidApiKeyError, InvalidGitHubTokenError)).
is_fatal(result) ==
    result \in {"InvalidApiKeyError", "InvalidGitHubTokenError"}

Min(a, b) == IF a <= b THEN a ELSE b

\* len(batch_repos) of the batch that starts at batch_idx.
BatchLen(total, batch_idx) == Min(batch_size, total - batch_idx)

\* A variant that slices the whole list, not the batch.
concurrent_repos_of_list(total, concurrency, batch_idx, i) ==
    (batch_idx + i + 1) .. Min(batch_idx + i + concurrency, total)

\* concurrent_repos: the repos (numbered from 1 in list order) of the group
\* that starts at offset i of the batch that starts at batch_idx.
concurrent_repos(total, concurrency, batch_idx, i) ==
    (batch_idx + i + 1) ..
        (batch_idx + Min(i + concurrency, BatchLen(total, batch_idx)))

\* The loop over the results of a group, in list order: the counters after
\* it and what it raised, if it did.
TallyResults(group, results, success_count, failed_count) ==
    LET fatal == {k \in group : is_fatal(results[k])}
        first == IF fatal = {} THEN 0
                 ELSE CHOOSE k \in fatal : \A j \in fatal : k <= j
        counted == IF fatal = {} THEN group ELSE {k \in group : k <= first}
        ok == {k \in counted : results[k] = "True"}
    IN  [success_count |-> success_count + Cardinality(ok),
         failed_count |-> failed_count + Cardinality(counted \ ok),
         raised |-> IF fatal = {} THEN "none" ELSE results[first]]

\* The runs followed: up to MaxAiRepos repos with any outcomes, and one
\* repo more than a batch holds, all summarized but for one credential
\* fault at most, at either side of the batch boundary.
AiInputs ==
    LET small == {in \in [total : 0 .. MaxAiRepos,
                          kind : UNION {[1 .. n -> ItemKinds] :
                                           n \in 0 .. MaxAiRepos}] :
                     DOMAIN in.kind = 1 .. in.total}
        n == batch_size + 1
        allok == [k \in 1 .. n |-> "summarized"]
        large == {[total |-> n, kind |-> allok]} \cup
                 {[total |-> n, kind |-> [allok EXCEPT ![at] = fault]] :
                     at \in {batch_size, n},
                     fault \in {"invalid_api_key", "invalid_github_token"}}
    IN  small \cup large

InitAi ==
    /\ \E in \in AiInputs, concurrency \in 1 .. MaxConcurrency,
          config \in {"ok", "ai_missing", "token_missing"},
          before \in {NeverAnalyzed, AnalyzedBefore},
          notifier \in BOOLEAN :
          /\ config # "ok" => in.total <= 1
          /\ ai_in = [total |-> in.total, kind |-> in.kind,
                      ai_concurrency |-> concurrency, config |-> config,
                      before |-> before, notifier |-> notifier]
          /\ ai_db = [k \in 1 .. in.total |-> before]
    /\ ai_run = [NoAiRun EXCEPT !.pc = "start"]
    /\ dnd_in = [dnd_enabled |-> FALSE, start_hour |-> 0, end_hour |-> 0,
                 hour |-> 0, minute |-> 0]
    /\ dnd_out = FALSE
    /\ dnd_pc = "off"
    /\ SleepIdle
    /\ AuxIdle
    /\ DiffIdle
    /\ ExtIdle
    /\ SchedIdle

\* A variant that does not check the GitHub token.
check_config_token_unchecked(total, config) ==
    IF total = 0 THEN "return"
    ELSE IF config = "ai_missing" THEN "raise" ELSE "run"

\* The checks before the loop: with no repos the function returns; with
\* ai_base_url or ai_model empty, or with no github_access_token, it raises.
check_config(total, config) ==
    IF total = 0 THEN "return"
    ELSE IF config = "ai_missing" THEN "raise"
    ELSE IF config = "token_missing" THEN "raise"
    ELSE "run"

\* The checks before the loop: no repos, the AI configuration or the GitHub
\* token missing (a notice is sent and the function raises).
AiStart ==
    /\ ai_run.pc = "start"
    /\ ai_run' =
          IF check_config(ai_in.total, ai_in.config) = "return"
          THEN [ai_run EXCEPT !.pc = "returned"]
          ELSE IF check_config(ai_in.total, ai_in.config) = "raise"
          THEN [ai_run EXCEPT !.pc = "raised", !.raised = "Exception",
                              !.notices = IF ai_in.notifier THEN @ + 1
                                          ELSE @]
          ELSE [ai_run EXCEPT !.pc = "group"]
    /\ UNCHANGED <<ai_in, ai_db, dnd_in, dnd_out, dnd_pc, sleep_in, sleep_out,
                   sleep_pc, auxVars, diffVars, extVars, schedVars>>

\* The tasks of the next group are created and gathered.
StartGroup ==
    /\ ai_run.pc = "group"
    /\ LET group == concurrent_repos(ai_in.total, ai_in.ai_concurrency,
                                     ai_run.batch_idx, ai_run.i)
       IN  ai_run' = [ai_run EXCEPT !.pc = "gather", !.group = group,
                                    !.results = <<>>,
                                    !.started = @ \cup group]
    /\ UNCHANGED <<ai_in, ai_db, dnd_in, dnd_out, dnd_pc, sleep_in, sleep_out,
                   sleep_pc, auxVars, diffVars, extVars, schedVars>>

\* summarize_single_repo of one repo of the group ends, in whatever order
\* the event loop runs the tasks.
ItemDone ==
    /\ ai_run.pc = "gather"
    /\ \E k \in ai_run.group \ DOMAIN ai_run.results :
          LET out == summarize_single_repo(ai_db[k], ai_in.kind[k],
                                           ai_in.notifier)
          IN  /\ ai_db' = [ai_db EXCEPT ![k] = out.row]
              /\ ai_run' = [ai_run EXCEPT
                    !.results = [j \in DOMAIN @ \cup {k} |->
                                    IF j = k THEN out.result ELSE @[j]],
                    !.processed = @ \cup {k},
                    !.notices = IF out.notice THEN @ + 1 ELSE @,
                    !.ai_calls = @ + out.ai_calls,
                    !.readme_fetches = @ + out.readme_fetches]
    /\ UNCHANGED <<ai_in, dnd_in, dnd_out, dnd_pc, sleep_in, sleep_out,
                   sleep_pc, auxVars, diffVars, extVars, schedVars>>

\* asyncio.gather returns: the results are counted, a fatal one is raised;
\* otherwise the delay between the groups or the batches is slept and the
\* next group follows, or the function returns.
GroupDone ==
    /\ ai_run.pc = "gather"
    /\ DOMAIN ai_run.results = ai_run.group
    /\ LET t == TallyResults(ai_run.group, ai_run.results,
                             ai_run.success_count, ai_run.failed_count)
           counted == [ai_run EXCEPT !.success_count = t.success_count,
                                     !.failed_count = t.failed_count,
                                     !.group = {}, !.results = <<>>]
           len == BatchLen(ai_in.total, ai_run.batch_idx)
       IN  ai_run' =
              IF t.raised # "none"
              THEN [counted EXCEPT !.pc = "raised", !.raised = t.raised]
              ELSE IF ai_run.i + ai_in.ai_concurrency < len
              THEN [counted EXCEPT !.pc = "delay", !.delay = GroupDelaySeconds,
                                   !.i = @ + ai_in.ai_concurrency]
              ELSE IF ai_run.batch_idx + batch_size < ai_in.total
              THEN [counted EXCEPT !.pc = "delay", !.delay = BatchDelaySeconds,
                                   !.i = 0, !.batch_idx = @ + batch_size]
              ELSE [counted EXCEPT !.pc = "returned"]
    /\ UNCHANGED <<ai_in, ai_db, dnd_in, dnd_out, dnd_pc, sleep_in, sleep_out,
                   sleep_pc, auxVars, diffVars, extVars, schedVars>>

\* await asyncio.sleep(20), or (60) between two batches, returns.
DelayElapsed ==
    /\ ai_run.pc = "delay"
    /\ ai_run' = [ai_run EXCEPT !.pc = "group"]
    /\ UNCHANGED <<ai_in, ai_db, dnd_in, dnd_out, dnd_pc, sleep_in, sleep_out,
                   sleep_pc, auxVars, diffVars, extVars, schedVars>>

NextAi == AiStart \/ StartGroup \/ ItemDone \/ GroupDone \/ DelayElapsed

SpecAi == InitAi /\ [][NextAi]_vars

(***************************************************************************)
(* The candidate selection: get_repos_to_summarize                         *)
(* (core/summary_service.py), over a repo table in the states the AI batch *)
(* leaves its rows in.                                                     *)
(***************************************************************************)
MaxSelRepos == 2

\* The AI columns a repo can have: never analyzed, analyzed, and what
\* summarize_single_repo makes of either.
SelRows ==
    {NeverAnalyzed, AnalyzedBefore} \cup
    {RowAfter(row, outcome) :
        row \in {NeverAnalyzed, AnalyzedBefore},
        outcome \in {"no_readme", "summary", "None", "EmptyContentError"}}

\* What get_readme_content gives for a repo now: the sha of its README,
\* none (404), or an exception.
LiveReadme == {"none", "old", "new", "fault"}

\* A variant for which any difference of the two sha is a change.
readme_changed_any(old_sha, current_sha) == old_sha # current_sha

\* The README has changed: there was none and there is one, or there is
\* one with another sha.
readme_changed(old_sha, current_sha) ==
    \/ old_sha = "none" /\ current_sha # "none"
    \/ old_sha # "none" /\ current_sha # "none" /\ old_sha # current_sha

\* A variant that leaves out the repos marked failed.
never_analyzed_unfailed(table) ==
    {i \in DOMAIN table :
        table[i].analyzed_at = "none" /\ ~table[i].analysis_failed}

\* select(Repo).where(Repo.analyzed_at == None).
never_analyzed(table) == {i \in DOMAIN table : table[i].analyzed_at = "none"}

\* A variant that looks up every analyzed repo.
repos_to_check_all(updated_repo_ids, table, token) ==
    {i \in DOMAIN table : table[i].analyzed_at # "none"}

\* The repos whose README is looked up: with ids given and a GitHub token
\* stored, the repos of these ids that have been analyzed.
repos_to_check(updated_repo_ids, table, token) ==
    IF updated_repo_ids # {} /\ token
    THEN {i \in DOMAIN table \cap updated_repo_ids :
             table[i].analyzed_at # "none"}
    ELSE {}

\* get_repos_to_summarize: the repos to summarize, the README cache, and
\* the number of README lookups made.
get_repos_to_summarize(mode, updated_repo_ids, table, token, live) ==
    LET checked == repos_to_check(updated_repo_ids, table, token)
        changed == {i \in checked :
                       /\ live[i] # "fault"
                       /\ readme_changed(table[i].readme_sha, live[i])}
    IN  CASE mode = "all" ->
                [repos |-> DOMAIN table, readme_cache |-> <<>>, lookups |-> 0]
          [] mode = "unanalyzed" ->
                [repos |-> never_analyzed(table), readme_cache |-> <<>>,
                 lookups |-> 0]
          [] mode = "auto" ->
                [repos |-> never_analyzed(table) \cup changed,
                 readme_cache |-> [i \in changed |-> live[i]],
                 lookups |-> Cardinality(checked)]

InitSelect ==
    /\ \E n \in 0 .. MaxSelRepos :
       \E table \in [1 .. n -> SelRows], live \in [1 .. n -> LiveReadme],
          ids \in SUBSET (1 .. MaxSelRepos), token \in BOOLEAN :
          sel_in = [table |-> table, live |-> live, updated_repo_ids |-> ids,
                    token |-> token, mode |-> "none"]
    /\ sel_out = NoSelection
    /\ sel_pc = "input"
    /\ ReqIdle
    /\ AiIdle
    /\ SleepIdle
    /\ DndOff
    /\ DiffIdle
    /\ ExtIdle
    /\ SchedIdle

\* One call of get_repos_to_summarize; updated_repo_ids is read in mode
\* "auto" only.
Select ==
    /\ sel_pc = "input"
    /\ \E mode \in {"all", "unanalyzed", "auto"} :
          /\ sel_in' = [sel_in EXCEPT !.mode = mode]
          /\ sel_out' = get_repos_to_summarize(mode, sel_in.updated_repo_ids,
                                               sel_in.table, sel_in.token,
                                               sel_in.live)
    /\ sel_pc' = "done"
    /\ UNCHANGED <<req_in, req_run, aiVars, dnd_in, dnd_out, dnd_pc, sleep_in,
                   sleep_out, sleep_pc, diffVars, extVars, schedVars>>

NextSelect == Select

SpecSelect == InitSelect /\ [][NextSelect]_vars

(***************************************************************************)
(* One request of the GitHub client: GitHubApiClient._request under the    *)
(* backoff decorator retry_on_server_error (core/github.py).               *)
(***************************************************************************)
MAX_RETRIES == 3

\* What comes of one HTTP request: a response with its status code, or a
\* network-level fault (httpx.RequestError).
Response(status) == [kind |-> "response", status |-> status]

NetworkFault == [kind |-> "network", status |-> 0]

ServerAnswers ==
    {Response(200), Response(401), Response(403), Response(404),
     Response(500), Response(503), NetworkFault}

\* The body of _request: the response is returned, or an exception leaves.
request_once(answer) ==
    IF answer.kind = "network"
    THEN [type |-> "RequestError", status |-> 0]
    ELSE IF answer.status >= 400 /\ answer.status < 500
    THEN IF answer.status = 401
         THEN [type |-> "ApiException", status |-> 401]
         ELSE [type |-> "HTTPStatusError", status |-> answer.status]
    ELSE IF answer.status >= 500
    THEN [type |-> "HTTPStatusError", status |-> answer.status]
    ELSE [type |-> "Response", status |-> answer.status]

\* A variant for which every HTTP error status is recoverable.
is_recoverable_error_any_status(e) ==
    e.type \in {"RequestError", "HTTPStatusError"}

\* _is_recoverable_error: network faults and 5xx answers.
is_recoverable_error(e) ==
    \/ e.type = "RequestError"
    \/ e.type = "HTTPStatusError" /\ e.status >= 500

InitRequest ==
    /\ req_in \in [1 .. MAX_RETRIES + 1 -> ServerAnswers]
    /\ req_run = [NoRequest EXCEPT !.pc = "try"]
    /\ SelIdle
    /\ AiIdle
    /\ SleepIdle
    /\ DndOff
    /\ DiffIdle
    /\ ExtIdle
    /\ SchedIdle

\* One try: the request is made; its response is returned, or backoff
\* gives up on the exception (not recoverable, or max_tries reached) and
\* lets it leave, or waits to try again.
Attempt ==
    /\ req_run.pc = "try"
    /\ LET tries == req_run.tries + 1
           e == request_once(req_in[tries])
       IN  req_run' =
              IF e.type = "Response"
              THEN [pc |-> "returned", tries |-> tries, outcome |-> e]
              ELSE IF ~is_recoverable_error(e) \/ tries = MAX_RETRIES
              THEN [pc |-> "raised", tries |-> tries, outcome |-> e]
              ELSE [pc |-> "backoff", tries |-> tries, outcome |-> e]
    /\ UNCHANGED <<req_in, sel_in, sel_out, sel_pc, aiVars, dnd_in, dnd_out,
                   dnd_pc, sleep_in, sleep_out, sleep_pc, diffVars, extVars, schedVars>>

\* The exponential wait of backoff is over.
BackoffElapsed ==
    /\ req_run.pc = "backoff"
    /\ req_run' = [req_run EXCEPT !.pc = "try"]
    /\ UNCHANGED <<req_in, sel_in, sel_out, sel_pc, aiVars, dnd_in, dnd_out,
                   dnd_pc, sleep_in, sleep_out, sleep_pc, diffVars, extVars, schedVars>>

NextRequest == Attempt \/ BackoffElapsed

SpecRequest == InitRequest /\ [][NextRequest]_vars

(***************************************************************************)
(* The scheduler: periodic_sync_scheduler and the cycle it runs,           *)
(* _perform_sync_and_notify_actions. The coroutine runs on the event loop: *)
(* another coroutine (an API handler, the shutdown) runs only while it is  *)
(* suspended in an await.                                                  *)
(***************************************************************************)
AwaitPoints == {"initial_delay", "fetch", "sending", "ai", "sleep"}

\* The positions inside a cycle that runs.
CyclePcs == {"fetch", "notify", "sending", "commit", "ai"}

\* The clock readings followed: 00:30 and 12:00.
SchedClock == {TimeOfDay(0, 30), TimeOfDay(12, 0)}

\* What datetime.now() may give where _is_in_dnd_hours is called with the
\* settings s: the function returns before it reads the clock when the
\* quiet hours are off or empty (the reading is then put at 12:00).
ClockReadings(s) ==
    IF ~s.is_dnd_enabled \/ s.dnd_start_hour = s.dnd_end_hour
    THEN {TimeOfDay(12, 0)}
    ELSE SchedClock

\* The channel names the factory knows.
NOTIFIER_MAP == {"webhook", "gotify", "bark", "serverchan"}

\* A variant that forgets to look at the access token.
should_skip_sync_ignores_token(s, access_token, now_time) ==
    IF ~s.is_background_sync_enabled THEN TRUE
    ELSE is_in_dnd_hours(s.is_dnd_enabled, s.dnd_start_hour,
                         s.dnd_end_hour, now_time)

\* The if/elif chain that sets should_skip_sync.
should_skip_sync(s, access_token, now_time) ==
    IF ~s.is_background_sync_enabled THEN TRUE
    ELSE IF ~access_token THEN TRUE
    ELSE is_in_dnd_hours(s.is_dnd_enabled, s.dnd_start_hour,
                         s.dnd_end_hour, now_time)

\* A variant that does not look the channel name up in NOTIFIER_MAP.
create_notifier_any_channel(s) ==
    /\ s.is_push_enabled
    /\ s.push_channel # "none"
    /\ s.push_config

\* create_notifier returns a notifier (TRUE) or None (FALSE).
create_notifier(s) ==
    /\ s.is_push_enabled
    /\ s.push_channel \in NOTIFIER_MAP
    /\ s.push_config

\* A variant that keeps every updated repo.
favorite_repos_to_notify_all(repos) == repos

\* The list comprehension that keeps the repos tagged as favorite.
favorite_repos_to_notify(repos) == {r \in repos : FAVORITE \in r.tags}

\* settings_record.failed_push_count = current_count + 1, staged.
increment_failed_push_count(current_count) == current_count + 1

RECURSIVE IncrementTimes(_, _)
IncrementTimes(count, times) ==
    IF times = 0 THEN count
    ELSE IncrementTimes(increment_failed_push_count(count), times - 1)

\* A variant of run_full_sync that commits what it staged.
DbAfterStaging_commits(persisted, staged) == staged

\* What the repo table holds, for other sessions, once run_full_sync has
\* staged its operations: it commits nothing.
DbAfterStaging(persisted, staged) == persisted

\* Where a CancelledError raised by a sleep would lead, were it swallowed.
OnCancelInSleep_swallowed == "cycle_start"

\* A CancelledError raised by asyncio.sleep, in the initial delay or in the
\* finally block, is under no handler: the coroutine ends.
OnCancelInSleep == "done"

\* A variant in which a skipped cycle goes on to the next without sleeping.
AfterCycle_skip_continues(outcome) ==
    IF outcome = "skipped" THEN "cycle_start" ELSE "finally"

\* However the try block is left, the finally block runs next.
AfterCycle(outcome) == "finally"

\* The finally block's choice of sleep_seconds.
SleepKind(a, now_time) ==
    IF a = NoSettings THEN "default_2h"
    ELSE IF /\ a.is_background_sync_enabled
            /\ is_in_dnd_hours(a.is_dnd_enabled, a.dnd_start_hour,
                               a.dnd_end_hour, now_time)
         THEN "until_dnd_end"
         ELSE "interval"

\* What a fetch may return: per id, not starred, or starred with its fields
\* as stored, with a new pushed_at, or with a new star count.
RemoteVersion(i, v) ==
    CASE v = "absent" -> NoRepo
      [] v = "same" -> GithubRepo(i, {})
      [] v = "pushed" -> GithubRepo(i, {"pushed_at"})
      [] v = "stars" -> GithubRepo(i, {"stargazers_count"})

\* The scheduler is followed on two repositories, both favorites in the
\* table at the start.
SchedRepoIds == {1, 2}

\* The versions of repository i a fetch may return; a change of the star
\* count alone is followed on repository 1.
FetchVersions(i) ==
    IF i = 1 THEN {"absent", "same", "pushed", "stars"}
    ELSE {"absent", "same", "pushed"}

FetchChoices ==
    {RemoteList([i \in SchedRepoIds |->
                    [remote |-> RemoteVersion(i, f[i])]], 2) :
        f \in {g \in [SchedRepoIds -> {"absent", "same", "pushed", "stars"}] :
                 \A i \in SchedRepoIds : g[i] \in FetchVersions(i)}}

OpenSession(s) ==
    [open |-> TRUE, staged |-> FALSE, repos |-> <<>>,
     failed_push_count |-> s.failed_push_count, counter_dirty |-> FALSE]

Init ==
    /\ DiffIdle
    /\ ExtIdle
    /\ DndIdle
    /\ pc = "initial_delay"
    /\ \E token \in BOOLEAN, ai \in BOOLEAN :
          db = [repos |-> [i \in SchedRepoIds |->
                              LocalRepo(i, {FAVORITE})],
                settings |-> [DefaultSettings EXCEPT
                    !.github_access_token = token,
                    !.is_push_enabled = TRUE,
                    !.push_channel = "webhook",
                    !.push_config = TRUE,
                    !.is_ai_enabled = ai,
                    !.is_auto_analysis_enabled = ai]]
    /\ sess = ClosedSession
    /\ fn_settings = NoSettings
    /\ app_settings = NoSettings
    /\ updated_repos = {}
    /\ to_notify = {}
    /\ cancel_at = "none"
    /\ break_pending = FALSE
    /\ sleep_kind = "none"
    /\ cyc = NoCycle

\* await asyncio.sleep(initial_delay) returns.
InitialDelayElapsed ==
    /\ pc = "initial_delay"
    /\ pc' = "cycle_start"
    /\ UNCHANGED <<db, sess, fn_settings, app_settings, updated_repos,
                   to_notify, cancel_at, break_pending, sleep_kind, cyc,
                   diffVars, extVars, dndVars>>

\* The top of the while loop and the entry of the cycle: the session is
\* opened, the settings and the token are read, should_skip_sync is set. A
\* skipped cycle returns app_settings at once.
CycleStart ==
    /\ pc = "cycle_start"
    /\ \E now_time \in ClockReadings(db.settings) :
          LET s == db.settings
              skip == should_skip_sync(s, s.github_access_token, now_time)
          IN  /\ cyc' = [NoCycle EXCEPT
                    !.pre = [repos |-> db.repos,
                             failed_push_count |-> s.failed_push_count],
                    !.entry = [settings |-> s, now_time |-> now_time],
                    !.entry_push = ~skip /\ s.is_push_enabled,
                    !.outcome = IF skip THEN "skipped" ELSE "running"]
              /\ IF skip
                 THEN /\ pc' = AfterCycle("skipped")
                      /\ app_settings' = s
                      /\ fn_settings' = NoSettings
                      /\ sess' = ClosedSession
                 ELSE /\ pc' = "fetch"
                      /\ app_settings' = NoSettings
                      /\ fn_settings' = s
                      /\ sess' = OpenSession(s)
    /\ updated_repos' = {}
    /\ to_notify' = {}
    /\ UNCHANGED <<db, cancel_at, break_pending, sleep_kind, diffVars, extVars,
                   dndVars>>

\* A variant in which what the session had staged outlives the rollback.
DbAfterRollback_keeps_staged(persisted, staged) == staged

\* What the repo table holds once the with block has closed the session and
\* the handler has rolled back: what was staged and not committed is gone.
DbAfterRollback(persisted, staged) == persisted

\* An exception leaves the cycle: the with block closes the session, which
\* discards what it had staged, the handler rolls back, and app_settings of
\* the loop is still None.
Fail(where) ==
    /\ pc' = AfterCycle("failed")
    /\ sess' = ClosedSession
    /\ app_settings' = NoSettings
    /\ fn_settings' = NoSettings
    /\ updated_repos' = {}
    /\ to_notify' = {}
    /\ cyc' = [cyc EXCEPT !.outcome = "failed", !.fault_at = where]
    /\ db' = [db EXCEPT !.repos =
                 IF sess.staged THEN DbAfterRollback(@, sess.repos) ELSE @]
    /\ UNCHANGED <<cancel_at, break_pending, sleep_kind, diffVars, extVars, dndVars>>

\* get_all_starred_repos raises.
\* The stats dictionary run_full_sync returns with the list of the repos to
\* notify about.
SyncStats(ops, data) ==
    [added |-> Cardinality(ops.to_add),
     updated |-> Cardinality(ops.substantive_updated_repos),
     removed |-> Cardinality(ops.to_remove_ids),
     total_from_github |-> Len(data)]

\* dict.get(key, default).
stats_get(stats, key, default) ==
    IF key \in DOMAIN stats THEN stats[key] ELSE default

FetchFault ==
    /\ pc = "fetch"
    /\ Fail("fetch")

\* get_all_starred_repos returns: run_full_sync reads the table, diffs and
\* stages the operations.
FetchDone ==
    /\ pc = "fetch"
    /\ \E data \in FetchChoices :
          LET ops == diff_and_prepare_operations(data, db.repos)
              staged == StageOperations(ops.repos, ops)
          IN  /\ sess' = [sess EXCEPT !.staged = TRUE, !.repos = staged]
              /\ db' = [db EXCEPT !.repos = DbAfterStaging(db.repos, staged)]
              /\ updated_repos' = ops.substantive_updated_repos
              /\ cyc' = [cyc EXCEPT !.fetches = @ + 1, !.fetched = data,
                                    !.staged = TRUE,
                                    !.stats = SyncStats(ops, data)]
    /\ pc' = "notify"
    /\ UNCHANGED <<fn_settings, app_settings, to_notify, cancel_at,
                   break_pending, sleep_kind, diffVars, extVars, dndVars>>

\* A variant that decides on the settings read at cycle entry.
SettingsForNotify_stale(loaded, stored) == loaded

\* session.refresh(app_settings): the object loaded at cycle entry takes
\* the values the settings row holds now.
SettingsForNotify(loaded, stored) == stored

\* The settings are refreshed, and the notifications of the favorite repos
\* with a substantive update, if there are any to send, are composed and
\* their sends started.
NotifyDecide ==
    /\ pc = "notify"
    /\ LET s == SettingsForNotify(fn_settings, db.settings)
           favs == favorite_repos_to_notify(updated_repos)
       IN  /\ fn_settings' = s
           /\ sess' = [sess EXCEPT !.failed_push_count = s.failed_push_count]
           /\ IF /\ s.is_push_enabled
                 /\ updated_repos # {}
                 /\ favs # {}
                 /\ create_notifier(s)
              THEN pc' = "sending" /\ to_notify' = favs
              ELSE pc' = "commit" /\ to_notify' = {}
    /\ cyc' = [cyc EXCEPT !.entry = NoCycle.entry,
                          !.reread_push = db.settings.is_push_enabled]
    /\ UNCHANGED <<db, app_settings, updated_repos, cancel_at, break_pending,
                   sleep_kind, diffVars, extVars, dndVars>>

\* Composing the message of one of the repos raises, before any send has
\* been awaited: the exception leaves the cycle.
NotifyFault ==
    /\ pc = "sending"
    /\ Fail("notify")

\* A variant that counts only the sends that returned False.
is_failed_send_false_only(res) == res = "false"

\* isinstance(res, Exception) or res is False.
is_failed_send(res) == res \in {"raised", "false"}

\* asyncio.gather returns the outcome of every send; one increment of the
\* counter is staged for each send that returned False or raised.
SendDone ==
    /\ pc = "sending"
    /\ \E results \in [IdsOf(to_notify) -> {"ok", "false", "raised"}] :
          LET failed_sends ==
                  Cardinality({i \in DOMAIN results :
                                  is_failed_send(results[i])})
          IN  /\ sess.failed_push_count + failed_sends <= MaxFailed
              /\ sess' = [sess EXCEPT
                    !.failed_push_count = IncrementTimes(@, failed_sends),
                    !.counter_dirty = failed_sends > 0]
              /\ cyc' = [cyc EXCEPT !.sends = results]
    /\ pc' = "commit"
    /\ to_notify' = {}
    /\ UNCHANGED <<db, fn_settings, app_settings, updated_repos, cancel_at,
                   break_pending, sleep_kind, diffVars, extVars, dndVars>>

\* session.commit(): what was staged becomes the persisted state. The
\* settings, expired by the commit, are loaded anew when the AI switches are
\* read; with them off the cycle returns, with them on the ids under the
\* key updated_repo_ids of stats go to get_repos_to_summarize.
Commit ==
    /\ pc = "commit"
    /\ db' = [repos |-> sess.repos,
              settings |-> IF sess.counter_dirty
                           THEN [db.settings EXCEPT !.failed_push_count =
                                    sess.failed_push_count]
                           ELSE db.settings]
    /\ LET reloaded == db'.settings
       IN  IF reloaded.is_ai_enabled /\ reloaded.is_auto_analysis_enabled
           THEN /\ pc' = "ai"
                /\ cyc' = [cyc EXCEPT !.outcome = "committed",
                                      !.ai = "running",
                                      !.entry_push = FALSE,
                                      !.reread_push = FALSE,
                                      !.ai_ids = stats_get(cyc.stats,
                                                     "updated_repo_ids", {})]
                /\ fn_settings' = reloaded
                /\ UNCHANGED <<app_settings, sess>>
           ELSE /\ pc' = AfterCycle("committed")
                /\ cyc' = [cyc EXCEPT !.outcome = "committed",
                                      !.entry_push = FALSE,
                                      !.reread_push = FALSE]
                /\ app_settings' = reloaded
                /\ fn_settings' = NoSettings
                /\ sess' = ClosedSession
    /\ updated_repos' = {}
    /\ UNCHANGED <<to_notify, cancel_at, break_pending, sleep_kind, diffVars, extVars,
                   dndVars>>

\* session.commit() raises.
CommitFault ==
    /\ pc = "commit"
    /\ Fail("commit")

\* A variant in which an exception of the AI phase leaves the cycle: the
\* loop is left with no settings.
ReturnedAfterAi_fault_escapes(how, loaded) ==
    IF how = "fault" THEN NoSettings ELSE loaded

\* What the cycle returns after its AI phase: `except Exception` logs what
\* the phase raised, and `return app_settings` follows either way.
ReturnedAfterAi(how, loaded) == loaded

\* The AI phase ends, normally or with an exception, which the cycle itself
\* catches and logs; the cycle returns app_settings.
AiEnd ==
    /\ pc = "ai"
    /\ \E how \in {"done", "fault"} :
          /\ cyc' = [cyc EXCEPT !.ai = how,
                                !.fault_at = IF how = "fault" THEN "ai" ELSE @]
          /\ app_settings' = ReturnedAfterAi(how, fn_settings)
    /\ pc' = AfterCycle("committed")
    /\ fn_settings' = NoSettings
    /\ sess' = ClosedSession
    /\ UNCHANGED <<db, updated_repos, to_notify, cancel_at, break_pending,
                   sleep_kind, diffVars, extVars, dndVars>>

\* The finally block: sleep_seconds is computed and the sleep begins.
Finally ==
    /\ pc = "finally"
    /\ \E now_time \in IF app_settings = NoSettings
                         THEN {TimeOfDay(12, 0)}
                         ELSE ClockReadings(app_settings) :
          sleep_kind' = SleepKind(app_settings, now_time)
    /\ cyc' = [NoCycle EXCEPT !.outcome = cyc.outcome,
                               !.fault_at = cyc.fault_at,
                               !.ai = cyc.ai,
                               !.sleeps = cyc.sleeps + 1]
    /\ pc' = "sleep"
    /\ UNCHANGED <<db, sess, fn_settings, app_settings, updated_repos,
                   to_notify, cancel_at, break_pending, diffVars, extVars, dndVars>>

\* The sleep of the finally block returns: a pending break leaves the loop,
\* otherwise the next iteration begins.
SleepElapsed ==
    /\ pc = "sleep"
    /\ pc' = IF break_pending THEN "done" ELSE "cycle_start"
    /\ app_settings' = NoSettings
    /\ sleep_kind' = "none"
    /\ cyc' = NoCycle
    /\ UNCHANGED <<db, sess, fn_settings, updated_repos, to_notify, cancel_at,
                   break_pending, diffVars, extVars, dndVars>>

\* lifespan cancels the task once, at shutdown: CancelledError is raised at
\* the await the coroutine is suspended in. In a sleep it ends the
\* coroutine. Inside the try block it closes the session and is caught by
\* the handler that breaks; the finally block runs before the break.
Cancel ==
    /\ cancel_at = "none"
    /\ pc \in AwaitPoints
    /\ cancel_at' = pc
    /\ IF pc \in {"initial_delay", "sleep"}
       THEN /\ pc' = OnCancelInSleep
            /\ UNCHANGED <<sess, fn_settings, updated_repos, break_pending,
                           to_notify, cyc>>
       ELSE /\ pc' = AfterCycle("cancelled")
            /\ sess' = ClosedSession
            /\ fn_settings' = NoSettings
            /\ updated_repos' = {}
            /\ break_pending' = TRUE
            /\ to_notify' = {}
            /\ cyc' = [cyc EXCEPT !.outcome =
                          IF @ = "committed" THEN @ ELSE "cancelled"]
    /\ UNCHANGED <<db, app_settings, sleep_kind, diffVars, extVars, dndVars>>

\* PUT /api/settings switches one of the flags, with the linkage rules:
\* sync off turns push and quiet hours off, push off turns quiet hours off.
UpdateSettings ==
    /\ pc \in AwaitPoints
    /\ \E key \in {"is_background_sync_enabled", "is_push_enabled",
                   "is_dnd_enabled"} :
          LET s == db.settings
              value == ~s[key]
              sync_off == key = "is_background_sync_enabled" /\ ~value
              push_off == sync_off \/ (key = "is_push_enabled" /\ ~value)
              s1 == [s EXCEPT ![key] = value]
              s2 == IF push_off \/ sync_off
                    THEN [s1 EXCEPT !.is_push_enabled =
                                        IF sync_off THEN FALSE ELSE @,
                                    !.is_dnd_enabled = FALSE]
                    ELSE s1
          IN  db' = [db EXCEPT !.settings = s2]
    /\ UNCHANGED <<pc, sess, fn_settings, app_settings, updated_repos,
                   to_notify, cancel_at, break_pending, sleep_kind, cyc,
                   diffVars, extVars, dndVars>>

\* A variant that takes one off the counter.
reset_failed_push_count_decrements(count) == IF count > 0 THEN count - 1 ELSE count

\* reset_failed_push_count: a counter above 0 is set to 0.
reset_failed_push_count(count) == IF count > 0 THEN 0 ELSE count

\* POST /api/settings/reset-failed-push-count, in a session of its own. The
\* handler has no await: it runs while the scheduler is suspended.
ResetCounter ==
    /\ pc \in AwaitPoints
    /\ db.settings.failed_push_count > 0
    /\ db' = [db EXCEPT !.settings.failed_push_count =
                            reset_failed_push_count(@)]
    /\ cyc' = [cyc EXCEPT !.reset = (pc \in CyclePcs) \/ @]
    /\ UNCHANGED <<pc, sess, fn_settings, app_settings, updated_repos,
                   to_notify, cancel_at, break_pending, sleep_kind, diffVars, extVars,
                   dndVars>>

Next ==
    \/ InitialDelayElapsed
    \/ CycleStart
    \/ FetchFault
    \/ FetchDone
    \/ NotifyDecide
    \/ NotifyFault
    \/ SendDone
    \/ Commit
    \/ CommitFault
    \/ AiEnd
    \/ Finally
    \/ SleepElapsed
    \/ Cancel
    \/ UpdateSettings
    \/ ResetCounter

Spec == Init /\ [][Next]_vars

(***************************************************************************)
(* The composer of a notification, create_notification_message             *)
(* (core/notifiers/message.py), on its own.                                *)
(***************************************************************************)
\* What the commit-history query of the GitHub client may meet.
FetchOutcomes == {"commits", "empty", "failed"}

\* get_recent_commits(full_name, since): the change summaries, an empty
\* list when there are none; it fails soft, a failed query gives the empty
\* list as well.
get_recent_commits(fetch) ==
    IF fetch = "commits" THEN <<"commit">> ELSE <<>>

\* What repo.description and repo.pushed_at may hold.
Descriptions == {"none", "empty", "text"}

PushedAts == {"none", "zulu", "offset", "garbled"}

\* _format_pushed_at: the local time of a timestamp that parses, else the
\* string as it is, or "N/A" for none (the TypeError is caught).
format_pushed_at(pushed_at_str) ==
    CASE pushed_at_str \in {"zulu", "offset"} -> "local_time"
      [] pushed_at_str = "garbled" -> "garbled"
      [] OTHER -> "N/A"

\* A variant with no fallback: without commits the message has no body.
create_notification_message_no_fallback(description, pushed_at, github_token, old_pushed_at, fetch) ==
    LET asked == old_pushed_at /\ github_token
        commits == IF asked THEN get_recent_commits(fetch) ELSE <<>>
    IN  [raised |-> FALSE, fetched |-> asked,
         section |-> IF commits # <<>> THEN "commits" ELSE "none",
         pushed_at |-> format_pushed_at(pushed_at)]

\* create_notification_message: the commits are asked for when old_pushed_at
\* and the token are given, and the section of the message falls back to
\* the description (or "N/A") when there is no commit to show.
create_notification_message(description, pushed_at, github_token, old_pushed_at, fetch) ==
    LET asked == old_pushed_at /\ github_token
        commits == IF asked THEN get_recent_commits(fetch) ELSE <<>>
    IN  [raised |-> FALSE, fetched |-> asked,
         section |-> IF commits # <<>> THEN "commits"
                     ELSE IF description = "text" THEN "description"
                     ELSE "N/A",
         pushed_at |-> format_pushed_at(pushed_at)]

InitCompose ==
    /\ \E description \in Descriptions, pushed_at \in PushedAts,
          github_token \in BOOLEAN, old_pushed_at \in BOOLEAN,
          fetch \in FetchOutcomes :
          compose_run = [pc |-> "input", description |-> description,
                         pushed_at |-> pushed_at,
                         github_token |-> github_token,
                         old_pushed_at |-> old_pushed_at, fetch |-> fetch]
    /\ NotifyIdle
    /\ ChannelIdle
    /\ TestPushIdle
    /\ SummaryTextIdle
    /\ FetchAllIdle
    /\ TaskIdle
    /\ DiffIdle
    /\ DndIdle
    /\ SchedIdle

\* One call of create_notification_message.
Compose ==
    /\ compose_run.pc = "input"
    /\ compose_run' =
          [compose_run EXCEPT !.pc = "done"] @@
          [message |-> create_notification_message(
                           compose_run.description, compose_run.pushed_at,
                           compose_run.github_token,
                           compose_run.old_pushed_at, compose_run.fetch)]
    /\ UNCHANGED <<notify_run, send_run, push_test, sum_text, fetch_all, task,
                   diffVars, dndVars, schedVars>>

NextCompose == Compose

SpecCompose == InitCompose /\ [][NextCompose]_vars

(***************************************************************************)
(* The notify block of a cycle, from the test of is_push_enabled to the    *)
(* commit (core/scheduler.py, core/notifiers/factory.py), on its own: the  *)
(* reconciliation has staged its changes, the settings are refreshed.      *)
(***************************************************************************)
\* The channel names a settings row may hold: the four of NOTIFIER_MAP, no
\* channel, and a name the factory does not know.
ChannelNames == NOTIFIER_MAP \cup {"none", "telegram"}

\* What the push_config column may hold: nothing, a text that does not
\* decrypt or parse, the encrypted JSON of a config.
StoredConfigs == {"null", "garbled", "config"}

\* get_decrypted_push_config: the config (TRUE), or None (FALSE) when the
\* column is empty or its text does not decrypt or parse.
get_decrypted_push_config(stored) == stored = "config"

\* The stats dictionary as run_full_sync builds it.
StatsKeys == {"added", "updated", "removed", "total_from_github"}

InitNotify ==
    /\ \E enabled \in BOOLEAN, channel \in ChannelNames,
          stored \in StoredConfigs, count \in 0 .. 1,
          updated \in SUBSET SchedRepoIds, favorite \in SUBSET SchedRepoIds,
          described \in SUBSET SchedRepoIds :
          notify_run =
             [pc |-> "decide",
              settings |-> [DefaultSettings EXCEPT
                               !.github_access_token = TRUE,
                               !.is_push_enabled = enabled,
                               !.push_channel = channel,
                               !.failed_push_count = count],
              stored_config |-> stored,
              stats |-> [k \in StatsKeys |-> 0],
              updated_repos |-> updated,
              favorite |-> favorite,
              described |-> described,
              notifier |-> "unset",
              composed |-> <<>>,
              results |-> <<>>,
              failed_push_count |-> count,
              committed |-> [staged |-> FALSE, failed_push_count |-> count]]
    /\ ComposeIdle
    /\ ChannelIdle
    /\ TestPushIdle
    /\ SummaryTextIdle
    /\ FetchAllIdle
    /\ TaskIdle
    /\ DiffIdle
    /\ DndIdle
    /\ SchedIdle

\* `if app_settings.is_push_enabled and updated_repos`, the favorites among
\* them, and the notifier the factory gives for them.
DecideNotify ==
    /\ notify_run.pc = "decide"
    /\ LET s == [notify_run.settings EXCEPT !.push_config =
                    get_decrypted_push_config(notify_run.stored_config)]
           favs == {i \in notify_run.updated_repos :
                       i \in notify_run.favorite}
       IN  IF s.is_push_enabled /\ notify_run.updated_repos # {} /\ favs # {}
           THEN notify_run' =
                   [notify_run EXCEPT
                       !.notifier = IF create_notifier(s) THEN "notifier"
                                    ELSE "None",
                       !.pc = IF create_notifier(s) THEN "compose"
                              ELSE "commit"]
           ELSE notify_run' = [notify_run EXCEPT !.pc = "commit"]
    /\ UNCHANGED <<compose_run, send_run, push_test, sum_text, fetch_all, task,
                   diffVars, dndVars, schedVars>>

\* One turn of the for loop: the message of the next favorite is composed
\* and its send is added to notification_tasks; an exception of the
\* composer leaves the cycle, which rolls back.
ComposeNext ==
    /\ notify_run.pc = "compose"
    /\ LET favs == {i \in notify_run.updated_repos :
                       i \in notify_run.favorite}
           todo == favs \ {notify_run.composed[k].id :
                              k \in DOMAIN notify_run.composed}
           i == CHOOSE j \in todo : \A k \in todo : j <= k
           old_pushed_at_map == stats_get(notify_run.stats,
                                          "old_pushed_at_map", {})
       IN  \E fetch \in FetchOutcomes :
              LET message == create_notification_message(
                                 IF i \in notify_run.described
                                 THEN "text" ELSE "none",
                                 "zulu",
                                 notify_run.settings.github_access_token,
                                 i \in old_pushed_at_map, fetch)
              IN  notify_run' =
                     IF message.raised
                     THEN [notify_run EXCEPT !.pc = "failed",
                              !.failed_push_count =
                                  notify_run.committed.failed_push_count]
                     ELSE [notify_run EXCEPT
                              !.composed = Append(@, [id |-> i,
                                                      message |-> message]),
                              !.pc = IF todo = {i} THEN "sending"
                                     ELSE "compose"]
    /\ UNCHANGED <<compose_run, send_run, push_test, sum_text, fetch_all, task,
                   diffVars, dndVars, schedVars>>

\* asyncio.gather of the sends, and one staged increment of the counter
\* for each that returned False or raised.
GatherSends ==
    /\ notify_run.pc = "sending"
    /\ \E results \in [DOMAIN notify_run.composed ->
                          {"ok", "false", "raised"}] :
          LET failed_sends ==
                  Cardinality({k \in DOMAIN results :
                                  is_failed_send(results[k])})
          IN  notify_run' =
                 [notify_run EXCEPT
                     !.results = results,
                     !.failed_push_count = IncrementTimes(@, failed_sends),
                     !.pc = "commit"]
    /\ UNCHANGED <<compose_run, send_run, push_test, sum_text, fetch_all, task,
                   diffVars, dndVars, schedVars>>

\* session.commit(): the staged reconciliation and the counter become the
\* persisted state.
CommitNotify ==
    /\ notify_run.pc = "commit"
    /\ notify_run' =
          [notify_run EXCEPT
              !.pc = "done",
              !.committed = [staged |-> TRUE,
                             failed_push_count |->
                                 notify_run.failed_push_count]]
    /\ UNCHANGED <<compose_run, send_run, push_test, sum_text, fetch_all, task,
                   diffVars, dndVars, schedVars>>

NextNotify == DecideNotify \/ ComposeNext \/ GatherSends \/ CommitNotify

SpecNotify == InitNotify /\ [][NextNotify]_vars

(***************************************************************************)
(* One send of a notification channel (core/notifiers/webhook.py,          *)
(* gotify.py, bark.py, serverchan.py). The config is the dictionary the    *)
(* settings API stored: any JSON object.                                   *)
(***************************************************************************)
\* The keys send reads, per channel, and the required ones among them.
ConfigKeys(channel) ==
    CASE channel = "webhook" -> {"url", "method", "json"}
      [] channel = "gotify" -> {"url", "token"}
      [] channel = "bark" -> {"key", "server_url"}
      [] channel = "serverchan" -> {"sendkey"}

RequiredKeys(channel) ==
    CASE channel = "webhook" -> {"url"}
      [] channel = "gotify" -> {"url", "token"}
      [] channel = "bark" -> {"key"}
      [] channel = "serverchan" -> {"sendkey"}

\* What a key of the config may hold: no such key, JSON null, the empty
\* string, a string; the method and the template of a webhook are followed
\* by what send makes of them.
ConfigValues(key) ==
    CASE key = "method" -> {"absent", "null", "POST", "GET", "PUT"}
      [] key = "json" -> {"absent", "invalid", "template"}
      [] OTHER -> {"absent", "null", "empty", "text"}

\* dict.get(key): None for a key that is absent or null.
config_get(config, key) ==
    IF config[key] \in {"absent", "null"} THEN "None" ELSE config[key]

\* dict.get(key, default): the default for an absent key only.
config_get_default(config, key, default) ==
    CASE config[key] = "absent" -> default
      [] config[key] = "null" -> "None"
      [] OTHER -> config[key]

\* `not value` of Python.
falsy(value) == value \in {"None", "empty"}

\* How the HTTP request of a send may end.
NetOutcomes == {"ok", "http_error", "business_error", "network_fault"}

Returned(value, requests) == [returned |-> value, requests |-> requests]

\* The request inside `try`: True on success, and every failure, an
\* exception included, gives False.
Requested(net) == Returned(IF net = "ok" THEN "True" ELSE "False", 1)

\* WebhookNotifier.send.
webhook_send(config, net) ==
    LET url == config_get(config, "url")
        method == config_get_default(config, "method", "POST")
        json_template_str == config_get_default(config, "json", "template")
    IN  IF method = "None" THEN Returned("AttributeError", 0)
        ELSE IF falsy(url) THEN Returned("False", 0)
        ELSE IF json_template_str = "invalid" THEN Returned("False", 0)
        ELSE IF method \in {"POST", "GET"} THEN Requested(net)
        ELSE Returned("False", 0)

\* GotifyNotifier.send.
gotify_send(config, net) ==
    LET url == config_get_default(config, "url", "empty")
        token == config_get(config, "token")
    IN  IF url = "None" THEN Returned("AttributeError", 0)
        ELSE IF falsy(url) \/ falsy(token) THEN Returned("False", 0)
        ELSE Requested(net)

\* BarkNotifier.send.
bark_send(config, net) ==
    LET key == config_get(config, "key")
        server_url == config_get_default(config, "server_url", "text")
    IN  IF server_url = "None" THEN Returned("AttributeError", 0)
        ELSE IF falsy(key) THEN Returned("False", 0)
        ELSE Requested(net)

\* ServerChanNotifier.send.
serverchan_send(config, net) ==
    LET sendkey == config_get(config, "sendkey")
    IN  IF falsy(sendkey) THEN Returned("False", 0)
        ELSE Requested(net)

\* notifier.send of the class NOTIFIER_MAP gives for the channel.
notifier_send(channel, config, net) ==
    CASE channel = "webhook" -> webhook_send(config, net)
      [] channel = "gotify" -> gotify_send(config, net)
      [] channel = "bark" -> bark_send(config, net)
      [] channel = "serverchan" -> serverchan_send(config, net)

InitChannel ==
    /\ \E channel \in NOTIFIER_MAP, net \in NetOutcomes :
       \E config \in [ConfigKeys(channel) ->
                         UNION {ConfigValues(k) : k \in ConfigKeys(channel)}] :
          /\ \A k \in ConfigKeys(channel) : config[k] \in ConfigValues(k)
          /\ send_run = [pc |-> "input", channel |-> channel,
                         config |-> config, net |-> net]
    /\ NotifyIdle
    /\ ComposeIdle
    /\ TestPushIdle
    /\ SummaryTextIdle
    /\ FetchAllIdle
    /\ TaskIdle
    /\ DiffIdle
    /\ DndIdle
    /\ SchedIdle

\* One call of send.
Send ==
    /\ send_run.pc = "input"
    /\ send_run' =
          [send_run EXCEPT !.pc = "done"] @@
          [result |-> notifier_send(send_run.channel, send_run.config,
                                    send_run.net)]
    /\ UNCHANGED <<notify_run, compose_run, push_test, sum_text, fetch_all,
                   task, diffVars, dndVars, schedVars>>

NextChannel == Send

SpecChannel == InitChannel /\ [][NextChannel]_vars

(***************************************************************************)
(* The test push of PUT /api/settings (api/settings.py, update_settings).  *)
(***************************************************************************)
\* max_tries of the backoff decorator around the test send.
TestPushMaxTries == 2

\* Every key a channel reads.
AllConfigKeys == UNION {ConfigKeys(channel) : channel \in NOTIFIER_MAP}

\* The empty dictionary, which is also what the comparison takes for a
\* push_config column that holds nothing.
EmptyConfig == [k \in AllConfigKeys |-> "absent"]

ConfigWith(pairs) ==
    [k \in AllConfigKeys |-> IF k \in DOMAIN pairs THEN pairs[k] ELSE "absent"]

\* The configs followed: complete ones for Bark and Gotify, a Bark config
\* whose optional server_url is null, and one without the required key.
BarkConfig == ConfigWith([key |-> "text"])

BarkNullServer == ConfigWith([key |-> "text", server_url |-> "null"])

BarkNoKey == ConfigWith([server_url |-> "text"])

GotifyConfig == ConfigWith([url |-> "text", token |-> "text"])

\* A key of the request body: not set, or set to a value (model_dump with
\* exclude_unset keeps the keys that were set).
NotSet(default) == [set |-> FALSE, value |-> default]

SetTo(value) == [set |-> TRUE, value |-> value]

UpdateRequests ==
    [is_background_sync_enabled :
         {NotSet(FALSE), SetTo(TRUE), SetTo(FALSE)},
     is_push_enabled : {NotSet(FALSE), SetTo(TRUE), SetTo(FALSE)},
     push_channel :
         {NotSet("none"), SetTo("bark"), SetTo("gotify"), SetTo("telegram")},
     push_config :
         {NotSet(EmptyConfig), SetTo(EmptyConfig), SetTo(BarkConfig),
          SetTo(BarkNullServer), SetTo(BarkNoKey), SetTo(GotifyConfig)}]

\* update_data.get(key, default).
update_get(update_data, key, default) ==
    IF update_data[key].set THEN update_data[key].value ELSE default

\* The linkage rules: sync switched off switches push off.
LinkedUpdate(update_data) ==
    IF update_data.is_background_sync_enabled = SetTo(FALSE)
    THEN [update_data EXCEPT !.is_push_enabled = SetTo(FALSE)]
    ELSE update_data

\* should_send_test_push: push is enabled in the resulting settings and the
\* update brings a channel or a config that differs from the current one.
should_send_test_push(update_data, current) ==
    LET final_push_enabled_state ==
            update_get(update_data, "is_push_enabled",
                       current.is_push_enabled)
        channel_has_changed ==
            /\ update_data.push_channel.set
            /\ update_data.push_channel.value # current.push_channel
        config_has_changed ==
            /\ update_data.push_config.set
            /\ update_data.push_config.value # current.push_config
    IN  final_push_enabled_state /\ (channel_has_changed \/ config_has_changed)

\* update_app_settings: the keys of the update are written to the record.
update_app_settings(current, update_data) ==
    [current EXCEPT
        !.is_push_enabled = update_get(update_data, "is_push_enabled", @),
        !.push_channel = update_get(update_data, "push_channel", @),
        !.push_config = update_get(update_data, "push_config", @)]

\* A variant of the decorator that also tries again after a False.
retry_test_send_on_false(returned, tries) ==
    returned # "True" /\ tries < TestPushMaxTries

\* backoff.on_exception(backoff.expo, Exception, max_tries=2): the send is
\* tried again after an exception, as long as max_tries is not reached; a
\* returned value, False included, is handed back as it is.
retry_test_send(returned, tries) ==
    returned \notin {"True", "False"} /\ tries < TestPushMaxTries

InitTestPush ==
    /\ \E enabled \in BOOLEAN, channel \in {"none", "bark", "gotify"},
          config \in {EmptyConfig, BarkConfig}, count \in 0 .. 1,
          update_data \in UpdateRequests :
          push_test =
             [pc |-> "request",
              db |-> [is_push_enabled |-> enabled, push_channel |-> channel,
                      push_config |-> config, failed_push_count |-> count],
              updated |-> [is_push_enabled |-> enabled,
                           push_channel |-> channel, push_config |-> config,
                           failed_push_count |-> count],
              committed |-> [is_push_enabled |-> enabled,
                             push_channel |-> channel, push_config |-> config,
                             failed_push_count |-> count],
              update_data |-> update_data,
              should_send |-> FALSE,
              notifier |-> "unset",
              tries |-> 0,
              returned |-> <<>>,
              response |-> "none",
              test_push_status |-> "none",
              test_push_error |-> "none"]
    /\ NotifyIdle
    /\ ComposeIdle
    /\ ChannelIdle
    /\ SummaryTextIdle
    /\ FetchAllIdle
    /\ TaskIdle
    /\ DiffIdle
    /\ DndIdle
    /\ SchedIdle

\* The handler up to the test send: the linkage rules, the decision, the
\* staged update, and the notifier the factory gives for the updated
\* settings.
UpdateRequest ==
    /\ push_test.pc = "request"
    /\ LET update_data == LinkedUpdate(push_test.update_data)
           should == should_send_test_push(update_data, push_test.db)
           updated == update_app_settings(push_test.db, update_data)
           s == [DefaultSettings EXCEPT
                    !.is_push_enabled = updated.is_push_enabled,
                    !.push_channel = updated.push_channel,
                    !.push_config = updated.push_config # EmptyConfig]
       IN  push_test' =
              [push_test EXCEPT
                  !.update_data = update_data,
                  !.should_send = should,
                  !.updated = updated,
                  !.notifier = IF ~should THEN "unset"
                               ELSE IF create_notifier(s) THEN "notifier"
                               ELSE "None",
                  !.test_push_status =
                      IF should /\ ~create_notifier(s) THEN "failed" ELSE @,
                  !.test_push_error =
                      IF should /\ ~create_notifier(s)
                      THEN "no_notifier" ELSE @,
                  !.pc = IF should /\ create_notifier(s) THEN "sending"
                         ELSE "commit"]
    /\ UNCHANGED <<notify_run, compose_run, send_run, sum_text, fetch_all,
                   task, diffVars, dndVars, schedVars>>

\* One try of send_with_retry.
TestAttempt ==
    /\ push_test.pc = "sending"
    /\ \E net \in NetOutcomes :
          LET r == notifier_send(push_test.updated.push_channel,
                                 push_test.updated.push_config, net)
              tries == push_test.tries + 1
          IN  push_test' =
                 [push_test EXCEPT
                     !.tries = tries,
                     !.returned = Append(@, r.returned),
                     !.pc = IF retry_test_send(r.returned, tries)
                            THEN "backoff" ELSE "commit",
                     !.test_push_status =
                         IF r.returned = "True" THEN "success"
                         ELSE IF retry_test_send(r.returned, tries) THEN @
                         ELSE "failed",
                     !.test_push_error =
                         IF r.returned = "True" THEN @
                         ELSE IF retry_test_send(r.returned, tries) THEN @
                         ELSE IF r.returned = "False" THEN "returned_false"
                         ELSE "exception"]
    /\ UNCHANGED <<notify_run, compose_run, send_run, sum_text, fetch_all,
                   task, diffVars, dndVars, schedVars>>

\* The wait of backoff before the next try is over.
TestBackoffElapsed ==
    /\ push_test.pc = "backoff"
    /\ push_test' = [push_test EXCEPT !.pc = "sending"]
    /\ UNCHANGED <<notify_run, compose_run, send_run, sum_text, fetch_all,
                   task, diffVars, dndVars, schedVars>>

\* session.commit() and the response, which carries test_push_status and
\* test_push_error.
CommitUpdate ==
    /\ push_test.pc = "commit"
    /\ push_test' = [push_test EXCEPT !.pc = "done",
                                      !.committed = push_test.updated,
                                      !.response = "200"]
    /\ UNCHANGED <<notify_run, compose_run, send_run, sum_text, fetch_all,
                   task, diffVars, dndVars, schedVars>>

NextTestPush ==
    UpdateRequest \/ TestAttempt \/ TestBackoffElapsed \/ CommitUpdate

SpecTestPush == InitTestPush /\ [][NextTestPush]_vars

(***************************************************************************)
(* The validation of the answer of the AI backend: the end of              *)
(* _call_ai_api and summarize_repository (core/ai_service.py). A text is   *)
(* followed as its leading whitespace, its body (no whitespace at either   *)
(* end) and its trailing whitespace, each by its length.                   *)
(***************************************************************************)
MinSummaryLen == 10

MaxSummaryLen == 400

Text(lead, body, trail) == [lead |-> lead, body |-> body, trail |-> trail]

\* The lengths followed, around the two limits.
LeadLens == {0, 1, 390, 391, 395, 400, 405}

BodyLens == {0, 1, 9, 10, 11, 399, 400, 401, 450}

TrailLens == {0, 1, 5}

\* The contents the backend may answer with; a text without body is
\* whitespace only, counted as leading.
Contents ==
    {Text(l, b, t) : l \in LeadLens, b \in BodyLens, t \in TrailLens} \
        {Text(l, 0, t) : l \in LeadLens, t \in TrailLens \ {0}}

\* len(s), s.strip() and s[:n].
text_len(s) == s.lead + s.body + s.trail

text_strip(s) == Text(0, s.body, 0)

text_prefix(s, n) ==
    LET lead == Min(s.lead, n)
        body == Min(s.body, n - lead)
        trail == Min(s.trail, n - lead - body)
    IN  IF body = 0 THEN Text(lead + trail, 0, 0) ELSE Text(lead, body, trail)

\* What becomes of the content of the answer: _call_ai_api raises
\* EmptyContentError for an empty one, summarize_repository for one whose
\* stripped length is under 10; otherwise the first 400 characters are
\* taken, stripped and returned as the summary.
accept_summary(content) ==
    IF text_len(content) = 0
    THEN [outcome |-> "EmptyContentError", summary |-> Text(0, 0, 0)]
    ELSE IF text_len(text_strip(content)) < MinSummaryLen
    THEN [outcome |-> "EmptyContentError", summary |-> Text(0, 0, 0)]
    ELSE [outcome |-> "summary",
          summary |-> text_strip(
                          IF text_len(content) > MaxSummaryLen
                          THEN text_prefix(content, MaxSummaryLen)
                          ELSE content)]

InitSummaryText ==
    /\ \E content \in Contents :
          sum_text = [pc |-> "input", content |-> content]
    /\ NotifyIdle
    /\ ComposeIdle
    /\ ChannelIdle
    /\ TestPushIdle
    /\ FetchAllIdle
    /\ TaskIdle
    /\ DiffIdle
    /\ DndIdle
    /\ SchedIdle

\* The answer is validated.
AcceptSummary ==
    /\ sum_text.pc = "input"
    /\ sum_text' = [sum_text EXCEPT !.pc = "done"] @@
                   [result |-> accept_summary(sum_text.content)]
    /\ UNCHANGED <<notify_run, compose_run, send_run, push_test, fetch_all,
                   task, diffVars, dndVars, schedVars>>

NextSummaryText == AcceptSummary

SpecSummaryText == InitSummaryText /\ [][NextSummaryText]_vars

(***************************************************************************)
(* SpecFetchAll: POST /api/stars/sync over any number of requests, with    *)
(* the paged fetch of get_all_starred_repos, the staging of run_full_sync, *)
(* the in-memory timestamp and the commit or rollback of the handler.      *)
(***************************************************************************)
\* The number of items of a page (STARS_PER_PAGE, 100 in the source).
PageSize == 1

\* The columns of a row that the user (alias, notes, tags) and the AI
\* pipeline (summary, timestamp, failed flag, README sha) write.
KeptFields ==
    {"alias", "notes", "tags", "ai_summary", "analyzed_at",
     "analysis_failed", "readme_sha"}

\* A row the user has edited and the AI pipeline has analysed.
EditedRepo(id, tags) ==
    [alias |-> 1, notes |-> 1, ai_summary |-> 1, analyzed_at |-> 1,
     analysis_failed |-> FALSE, readme_sha |-> 1] @@ LocalRepo(id, tags)

\* The ids the requests are followed on: 1 and 2 are in the table at the
\* start, 3 is not.
SyncRepoIds == {1, 2, 3}

\* What GitHub may hold of repository i when a request begins; an item of
\* repository 3 may come without a repo id.
StarVersions(i) ==
    CASE i = 1 -> {"absent", "same", "pushed", "stars"}
      [] i = 2 -> {"absent", "same"}
      [] OTHER -> {"absent", "same", "no_id"}

\* An item of the starred list whose repo has no id.
MalformedItem == [id |-> 0, repo |-> "none"]

\* The starred list of GitHub, in ascending id order.
RECURSIVE StarredList(_, _)
StarredList(f, n) ==
    IF n = 0 THEN <<>>
    ELSE IF f[n] = "absent" THEN StarredList(f, n - 1)
    ELSE Append(StarredList(f, n - 1),
                IF f[n] = "no_id" THEN MalformedItem
                ELSE RemoteVersion(n, f[n]))

StarredChoices ==
    {StarredList(f, 3) :
        f \in {g \in [SyncRepoIds -> {"absent", "same", "pushed", "stars",
                                      "no_id"}] :
                 \A i \in SyncRepoIds : g[i] \in StarVersions(i)}}

\* The ids of the repositories of a starred list.
StarredIds(raw) == {raw[k].id : k \in DOMAIN raw} \ {0}

\* The Link header GitHub puts on the answer to the probe: it names the
\* last page when the list has more than one page.
LinkHeader(raw) ==
    LET pages == (Len(raw) + PageSize - 1) \div PageSize
    IN  IF pages > 1 THEN [set |-> TRUE, last |-> pages]
        ELSE [set |-> FALSE, last |-> 0]

\* How a request of _request ends once its retries are over: a response, a
\* 401 (ApiException AUTH_INVALID_TOKEN), or any other exception.
RequestOutcomes == {"ok", "unauthorized", "error"}

\* _get_total_pages: an ApiException is raised again, any other exception
\* becomes GITHUB_API_PROBE_FAILED; without a Link header there is 1 page.
get_total_pages(outcome, link) ==
    CASE outcome = "unauthorized" ->
            [raised |-> "AUTH_INVALID_TOKEN", pages |-> 0]
      [] outcome = "error" ->
            [raised |-> "GITHUB_API_PROBE_FAILED", pages |-> 0]
      [] OTHER ->
            [raised |-> "none",
             pages |-> IF link.set THEN link.last ELSE 1]

\* The items GitHub returns for a page.
PageItems(raw, page) ==
    SubSeq(raw, (page - 1) * PageSize + 1, Min(page * PageSize, Len(raw)))

\* A variant that answers a failed page request with an empty page.
get_stars_by_page_empty_on_error(raw, page, outcome) ==
    [raised |-> "none",
     items |-> IF outcome = "ok" THEN PageItems(raw, page) ELSE <<>>]

\* _get_stars_by_page: the JSON list of the page, or what _request raised.
get_stars_by_page(raw, page, outcome) ==
    CASE outcome = "ok" -> [raised |-> "none", items |-> PageItems(raw, page)]
      [] outcome = "unauthorized" ->
            [raised |-> "AUTH_INVALID_TOKEN", items |-> <<>>]
      [] OTHER -> [raised |-> "HTTPError", items |-> <<>>]

\* The except clause of get_all_starred_repos: an ApiException is raised
\* again, anything else becomes ApiException GITHUB_SYNC_FAILED.
RaisedByFetch(e) ==
    IF e \in {"AUTH_INVALID_TOKEN", "GITHUB_API_PROBE_FAILED"} THEN e
    ELSE "GITHUB_SYNC_FAILED"

\* [item for page in pages_results for item in page].
RECURSIVE AllStars(_, _)
AllStars(pages_results, n) ==
    IF n = 0 THEN <<>>
    ELSE AllStars(pages_results, n - 1) \o pages_results[n]

\* The cleaning loop: an item without repo data or repo id is skipped.
CleanedStars(all_stars) ==
    SelectSeq(all_stars, LAMBDA item : item.id # 0)

\* No request is in progress and none has been made.
NoSync ==
    [pc |-> "idle", pre |-> <<>>, raw |-> <<>>, total_pages |-> 0,
     pages |-> <<>>, raised |-> "none", data |-> <<>>, ops |-> NoDiff,
     staged |-> FALSE, session |-> <<>>, sync_at |-> "previous",
     outcome |-> "none"]

InitFetchAll ==
    /\ DiffIdle
    /\ NotifyIdle /\ ComposeIdle /\ ChannelIdle /\ TestPushIdle
    /\ SummaryTextIdle /\ TaskIdle
    /\ DndIdle
    /\ SchedIdle
    /\ \E t1 \in {{}, {FAVORITE}} :
          LET table == [i \in {1, 2} |->
                           EditedRepo(i, IF i = 1 THEN t1 ELSE {"work"})]
          IN  fetch_all = [NoSync EXCEPT !.pc = "idle"]
                              @@ [table |-> table, first |-> table,
                                  kept |-> DOMAIN table]

FetchAllUnchanged ==
    UNCHANGED <<notify_run, compose_run, send_run, push_test, sum_text, task,
                diffVars, dndVars, schedVars>>

\* The request ends with an exception: the handler rolls back, and nothing
\* that was staged is left.
SyncRaised(run, code) ==
    [run EXCEPT !.pc = "idle", !.raised = code, !.outcome = "failed",
                !.staged = FALSE, !.session = <<>>]

\* sync_stars begins: without a stored token it raises at once; with one,
\* run_full_sync calls get_all_starred_repos, which sends the probe.
StartSync ==
    /\ fetch_all.pc = "idle"
    /\ \E token \in BOOLEAN, raw \in StarredChoices :
          LET run == NoSync @@ fetch_all
              new == [run EXCEPT !.pre = fetch_all.table, !.raw = raw]
          IN  fetch_all' =
                 IF token THEN [new EXCEPT !.pc = "probe"]
                 ELSE [new EXCEPT !.raised = "AUTH_NO_SERVER_SESSION",
                                  !.outcome = "failed"]
    /\ FetchAllUnchanged

\* The HEAD request of _get_total_pages ends; get_all_starred_repos starts
\* one request per page, or raises what the probe raised.
Probe ==
    /\ fetch_all.pc = "probe"
    /\ \E outcome \in RequestOutcomes :
          LET total == get_total_pages(outcome, LinkHeader(fetch_all.raw))
          IN  fetch_all' =
                 IF total.raised # "none"
                 THEN SyncRaised(fetch_all, RaisedByFetch(total.raised))
                 ELSE [fetch_all EXCEPT
                          !.pc = "pages",
                          !.total_pages = total.pages,
                          !.pages = [p \in 1..total.pages |->
                                        [done |-> FALSE, items |-> <<>>]]]
    /\ FetchAllUnchanged

\* The request of one page ends. asyncio.gather has no return_exceptions:
\* the first page that raises ends the gather, and the fetch, with it.
PageDone ==
    /\ fetch_all.pc = "pages"
    /\ \E page \in DOMAIN fetch_all.pages, outcome \in RequestOutcomes :
          /\ ~fetch_all.pages[page].done
          /\ LET res == get_stars_by_page(fetch_all.raw, page, outcome)
             IN  fetch_all' =
                    IF res.raised # "none"
                    THEN SyncRaised(fetch_all, RaisedByFetch(res.raised))
                    ELSE [fetch_all EXCEPT
                             !.pages[page] = [done |-> TRUE,
                                              items |-> res.items]]
    /\ FetchAllUnchanged

\* Every page has answered: the items are merged and cleaned, and
\* run_full_sync reads the table, diffs, stages the operations and sets
\* LAST_SUCCESSFUL_SYNC_AT before it returns.
Gathered ==
    /\ fetch_all.pc = "pages"
    /\ \A p \in DOMAIN fetch_all.pages : fetch_all.pages[p].done
    /\ LET pages_results == [p \in DOMAIN fetch_all.pages |->
                                fetch_all.pages[p].items]
           data == CleanedStars(AllStars(pages_results,
                                         fetch_all.total_pages))
           ops == diff_and_prepare_operations(data, fetch_all.table)
       IN  fetch_all' = [fetch_all EXCEPT
                            !.pc = "commit",
                            !.data = data,
                            !.ops = ops,
                            !.staged = TRUE,
                            !.session = StageOperations(ops.repos, ops),
                            !.sync_at = "now"]
    /\ FetchAllUnchanged

\* session.commit() of sync_stars: the staged operations are persisted.
CommitSync ==
    /\ fetch_all.pc = "commit"
    /\ fetch_all' = [fetch_all EXCEPT
                        !.pc = "idle",
                        !.outcome = "committed",
                        !.table = fetch_all.session,
                        !.kept = @ \cap StarredIds(fetch_all.raw)]
    /\ FetchAllUnchanged

\* session.commit() raises: the handler rolls back and raises
\* API_SYNC_UNEXPECTED_ERROR.
CommitSyncFault ==
    /\ fetch_all.pc = "commit"
    /\ fetch_all' = [fetch_all EXCEPT
                        !.pc = "idle",
                        !.outcome = "rolled_back",
                        !.raised = "API_SYNC_UNEXPECTED_ERROR",
                        !.table = DbAfterRollback(@, fetch_all.session)]
    /\ FetchAllUnchanged

NextFetchAll ==
    \/ StartSync
    \/ Probe
    \/ PageDone
    \/ Gathered
    \/ CommitSync
    \/ CommitSyncFault

SpecFetchAll == InitFetchAll /\ [][NextFetchAll]_vars

(***************************************************************************)
(* SpecTask: POST /api/summary/start from several clients, the background  *)
(* task it schedules and the process-wide _summary_status.                 *)
(***************************************************************************)
\* The start requests that are followed.
MaxRequests == 3

Requests == 1..MaxRequests

\* The modes a request may carry; only the first two are accepted.
RequestModes == {"all", "unanalyzed", "auto"}

\* How get_repos_to_summarize ends for an accepted mode: repos to
\* summarize, none, or an exception of the database.
SelectionOutcomes == {"repos", "empty", "raises"}

\* The global _summary_status as the module defines it.
InitialSummaryStatus ==
    [is_running |-> FALSE, total |-> 0, completed |-> 0, failed |-> 0]

\* A request that has not arrived.
NewRequest == [pc |-> "new", seen |-> FALSE, during |-> FALSE,
               response |-> "none"]

\* A variant that decides on the flag as it was when the request arrived,
\* as would a handler that is suspended between the check and the update.
is_running_at_check_on_arrival(on_arrival, now) == on_arrival

\* if _summary_status["is_running"]: the handler reads the flag in its
\* body, and from there to the update of the status it awaits nothing that
\* suspends it (for the modes all and unanalyzed get_repos_to_summarize
\* only runs synchronous queries), so no other request runs in between.
is_running_at_check(on_arrival, now) == now

\* The background tasks that are scheduled or running.
LiveTasks(tasks) == {r \in DOMAIN tasks : tasks[r] \in {"scheduled", "running"}}

\* The body of start_summary for a request of the given mode, with what
\* get_repos_to_summarize comes to: the response, whether a task is
\* scheduled, and the status afterwards.
start_summary(status, on_arrival, mode, selection) ==
    CASE mode \notin {"all", "unanalyzed"} ->
            [response |-> "INVALID_MODE", scheduled |-> FALSE,
             status |-> status]
      [] OTHER ->
            IF is_running_at_check(on_arrival, status.is_running)
            THEN [response |-> "TASK_ALREADY_RUNNING", scheduled |-> FALSE,
                  status |-> status]
            ELSE CASE selection = "raises" ->
                         [response |-> "SUMMARY_START_FAILED",
                          scheduled |-> FALSE, status |-> status]
                   [] selection = "empty" ->
                         [response |-> "nothing_to_summarize",
                          scheduled |-> FALSE, status |-> status]
                   [] OTHER ->
                         [response |-> "started", scheduled |-> TRUE,
                          status |-> [is_running |-> TRUE, total |-> 1,
                                      completed |-> 0, failed |-> 0]]

InitTask ==
    /\ DiffIdle
    /\ NotifyIdle /\ ComposeIdle /\ ChannelIdle /\ TestPushIdle
    /\ SummaryTextIdle /\ FetchAllIdle
    /\ DndIdle
    /\ SchedIdle
    /\ task = [pc |-> "on",
               status |-> InitialSummaryStatus,
               reqs |-> [r \in Requests |-> NewRequest],
               tasks |-> [r \in Requests |-> "none"]]

TaskUnchanged ==
    UNCHANGED <<notify_run, compose_run, send_run, push_test, sum_text,
                fetch_all, diffVars, dndVars, schedVars>>

\* A request arrives and its dependencies (the session, the user of the
\* token) are resolved; the body of the handler has not run yet.
RequestArrives ==
    /\ task.pc = "on"
    /\ \E r \in Requests :
          /\ task.reqs[r].pc = "new"
          /\ task' = [task EXCEPT !.reqs[r] =
                         [@ EXCEPT !.pc = "ready",
                                   !.seen = task.status.is_running]]
    /\ TaskUnchanged

\* The body of start_summary runs, in one piece, and the response is built.
StartSummary ==
    /\ task.pc = "on"
    /\ \E r \in Requests, mode \in RequestModes,
          selection \in SelectionOutcomes :
          /\ task.reqs[r].pc = "ready"
          /\ LET out == start_summary(task.status, task.reqs[r].seen, mode,
                                      selection)
             IN  task' = [task EXCEPT
                    !.status = out.status,
                    !.reqs[r] = [pc |-> "done",
                                 seen |-> @.seen,
                                 during |-> mode \in {"all", "unanalyzed"}
                                            /\ LiveTasks(task.tasks) # {},
                                 response |-> out.response],
                    !.tasks[r] = IF out.scheduled THEN "scheduled" ELSE @]
    /\ TaskUnchanged

\* The response has been sent: the background task starts.
TaskRuns ==
    /\ task.pc = "on"
    /\ \E r \in Requests :
          /\ task.tasks[r] = "scheduled"
          /\ task' = [task EXCEPT !.tasks[r] = "running"]
    /\ TaskUnchanged

\* _run_summary_task ends: summarize_repos_batch has returned its counts,
\* or has raised, which is logged; the finally block resets the flag.
TaskEnds ==
    /\ task.pc = "on"
    /\ \E r \in Requests, how \in {"success", "failure", "raised"} :
          /\ task.tasks[r] = "running"
          /\ task' = [task EXCEPT
                !.tasks[r] = IF how = "raised" THEN "raised" ELSE "completed",
                !.status = [@ EXCEPT
                    !.completed = IF how = "success" THEN 1
                                  ELSE IF how = "failure" THEN 0 ELSE @,
                    !.failed = IF how = "failure" THEN 1
                               ELSE IF how = "success" THEN 0 ELSE @,
                    !.is_running = FALSE]]
    /\ TaskUnchanged

NextTask ==
    \/ RequestArrives
    \/ StartSummary
    \/ TaskRuns
    \/ TaskEnds

SpecTask == InitTask /\ [][NextTask]_vars

(***************************************************************************)
(* Properties of the reconciliation.                                       *)
(***************************************************************************)
DiffRan == diff_pc \in {"diffed", "rediffed"}

RemoteIds == {github_repos_data[k].id : k \in DOMAIN github_repos_data}

RemoteOf(i) ==
    github_repos_data[CHOOSE k \in DOMAIN github_repos_data :
                          github_repos_data[k].id = i]

CommonIds == RemoteIds \cap DOMAIN diff_before

\* The fields the specification lists as substantive.
ListedSubstantive ==
    {"name", "full_name", "description", "language", "html_url", "pushed_at"}

DiffersIn(i, fields) ==
    \E f \in fields : diff_before[i][f] # RemoteOf(i)[f]

\* C1: after diff(R, L), toAdd holds exactly the ids of R that L lacks,
\* toRemoveIds exactly the ids of L that R lacks, and a common repo is in
\* substantiveUpdates iff one of the six listed fields differs between its
\* remote and its local version (star count and starred_at never flag it).
C1_DiffSets ==
    DiffRan =>
        /\ IdsOf(diff_out.to_add) = RemoteIds \ DOMAIN diff_before
        /\ diff_out.to_remove_ids = DOMAIN diff_before \ RemoteIds
        /\ IdsOf(diff_out.substantive_updated_repos) \subseteq CommonIds
        /\ \A i \in CommonIds :
              i \in IdsOf(diff_out.substantive_updated_repos)
                  <=> DiffersIn(i, ListedSubstantive)

\* A diff that added, removed or flagged a repo, and that left unflagged a
\* common repo whose only difference is the star count.
C1_Witness ==
    /\ diff_pc = "diffed"
    /\ \E i \in CommonIds :
          /\ DiffersIn(i, {"stargazers_count"})
          /\ ~DiffersIn(i, ListedSubstantive)
          /\ i \notin IdsOf(diff_out.substantive_updated_repos)
    /\ \/ diff_out.to_add # {}
       \/ diff_out.to_remove_ids # {}
       \/ diff_out.substantive_updated_repos # {}

\* C2: when the result of diff(R, L) has been applied to L, a second
\* diff(R, L') returns empty toAdd, toRemoveIds and substantiveUpdates.
C2_Idempotent ==
    diff_pc = "rediffed" =>
        /\ diff_out.to_add = {}
        /\ diff_out.to_remove_ids = {}
        /\ diff_out.substantive_updated_repos = {}

\* A second diff after a first one that added, removed and/or flagged.
C2_Witness ==
    /\ diff_pc = "rediffed"
    /\ diff_first.substantive_updated_repos # {}
    /\ diff_first.to_add # {} \/ diff_first.to_remove_ids # {}

\* C3 as stated: a common repo is in toUpdate only if one of its synced
\* fields differs; one whose fields are all equal is omitted.
C3_OnlyChangedInToUpdate ==
    DiffRan =>
        \A i \in CommonIds :
            i \in IdsOf(diff_out.to_update) => DiffersIn(i, SyncedFields)

\* C3 as amended: toUpdate holds every repo present on both sides, whether
\* or not one of its fields differs, each with the remote values of the
\* synced fields.
C3_AllCommonInToUpdate ==
    DiffRan =>
        /\ IdsOf(diff_out.to_update) = CommonIds
        /\ \A r \in diff_out.to_update :
              \A f \in SyncedFields : r[f] = RemoteOf(r.id)[f]

\* A diff that returned, in toUpdate, a common repo none of whose synced
\* fields differs, beside one that does differ.
C3_Witness ==
    /\ diff_pc = "diffed"
    /\ \E i \in CommonIds :
          /\ ~DiffersIn(i, SyncedFields)
          /\ i \in IdsOf(diff_out.to_update)
    /\ \E i \in CommonIds : DiffersIn(i, SyncedFields)

(***************************************************************************)
(* Properties of the quiet-hours test.                                     *)
(***************************************************************************)
\* The window as the specification words it, on the hour of the clock.
InWindow(enabled, start, end, hour) ==
    IF ~enabled \/ start = end THEN FALSE
    ELSE IF start < end THEN start <= hour /\ hour < end
    ELSE hour >= start \/ hour < end

\* C10: the quiet-hours test is false when the flag is off or start = end;
\* for start < end it is true iff start <= now < end; for start > end it is
\* true iff now >= start or now < end. With start 23 and end 7, 00:30 is
\* inside and 12:00 is outside.
C10_QuietHours ==
    dnd_pc = "done" =>
        /\ dnd_out = InWindow(dnd_in.dnd_enabled, dnd_in.start_hour,
                              dnd_in.end_hour, dnd_in.hour)
        /\ (dnd_in.dnd_enabled /\ dnd_in.start_hour = 23 /\ dnd_in.end_hour = 7)
              => /\ (dnd_in.hour = 0 /\ dnd_in.minute = 30) => dnd_out
                 /\ (dnd_in.hour = 12 /\ dnd_in.minute = 0) => ~dnd_out

\* The test answered "inside" for 00:30 in the window 23 to 7.
C10_Witness ==
    /\ dnd_pc = "done"
    /\ dnd_out = TRUE
    /\ dnd_in.start_hour = 23 /\ dnd_in.end_hour = 7
    /\ dnd_in.hour = 0 /\ dnd_in.minute = 30

(***************************************************************************)
(* Properties of the scheduler loop.                                       *)
(***************************************************************************)
\* What another session reads of the items and of the counter.
Persisted ==
    [repos |-> db.repos, failed_push_count |-> db.settings.failed_push_count]

\* The persisted items are those of x, and so is the persisted counter
\* unless the API has reset it while the cycle ran.
PersistedIs(x) ==
    /\ Persisted.repos = x.repos
    /\ ~cyc.reset => Persisted.failed_push_count = x.failed_push_count

\* The table a reconciliation of the table pre against the fetched list is
\* to leave: the fetched ids, the synced fields as fetched, the user fields
\* of a row that was there as they were.
ReconciledTable(pre, data) ==
    LET remote == github_repos_map(data)
    IN  [i \in DOMAIN remote |->
            IF i \in DOMAIN pre
            THEN [f \in DOMAIN pre[i] |->
                     IF f \in SyncedFields THEN remote[i][f] ELSE pre[i][f]]
            ELSE RepoFromGithub(remote[i])]

FailedSends(sends) == Cardinality({i \in DOMAIN sends : sends[i] # "ok"})

\* What the persisted state is to be once the cycle has committed.
CommittedState ==
    [repos |-> ReconciledTable(cyc.pre.repos, cyc.fetched),
     failed_push_count |-> cyc.pre.failed_push_count + FailedSends(cyc.sends)]

\* C4: cycle atomicity. While a cycle runs and has not committed, the
\* persisted items and counter are those the cycle met, whatever it has
\* staged; a cycle that ends without committing leaves them so; once it has
\* committed, the persisted state holds every staged add, update and remove
\* and every counter increment. No state holds a part of them.
C4_CycleAtomicity ==
    /\ cyc.outcome = "running" => PersistedIs(cyc.pre)
    /\ (pc = "finally" /\ cyc.outcome \in {"failed", "cancelled"})
          => PersistedIs(cyc.pre)
    /\ (pc \in {"ai", "finally"} /\ cyc.outcome = "committed")
          => PersistedIs(CommittedState)

\* A cycle has committed a change of the items together with a counter
\* increment.
C4_Witness ==
    /\ pc = "finally"
    /\ cyc.outcome = "committed"
    /\ db.repos # cyc.pre.repos
    /\ db.settings.failed_push_count > cyc.pre.failed_push_count

\* C5 as stated: after a fault in the fetch, the notifications or the AI
\* trigger, the persisted items and counter are those of before the cycle.
C5_FaultLeavesPreCycleState ==
    (pc = "finally" /\ cyc.fault_at \in {"fetch", "notify", "ai"})
        => PersistedIs(cyc.pre)

\* C5, amended: a fault before the commit (in the fetch, the notifications
\* or the commit itself) is caught by the loop, the session is closed and
\* the persisted items and counter are those of before the cycle; a fault in
\* the AI trigger is caught inside the cycle, after the commit, and the
\* committed changes stay. In both cases the loop does not end: it sleeps,
\* and when the sleep elapses the next cycle starts.
C5_FailureIsolation ==
    /\ (pc = "finally" /\ cyc.fault_at \in {"fetch", "notify", "commit"})
          => /\ cyc.outcome = "failed"
             /\ PersistedIs(cyc.pre)
             /\ sess = ClosedSession
    /\ (pc = "finally" /\ cyc.fault_at = "ai")
          => /\ cyc.outcome = "committed"
             /\ PersistedIs(CommittedState)
    /\ cyc.fault_at # "none"
          => \/ pc = "finally" /\ ENABLED Finally
             \/ pc = "sleep" /\ ENABLED (SleepElapsed /\ pc' = "cycle_start")
             \/ pc = "done" /\ cancel_at = "sleep"

\* The commit of a cycle that had staged a change of the items and a counter
\* increment has failed.
C5_Witness ==
    /\ pc = "finally"
    /\ cyc.fault_at = "commit"
    /\ ReconciledTable(cyc.pre.repos, cyc.fetched) # cyc.pre.repos
    /\ FailedSends(cyc.sends) > 0

\* C6: once the task is cancelled in a sleep, the initial delay or the sleep
\* between two cycles, the loop has ended and no cycle can start.
C6_CancelInSleepEndsLoop ==
    cancel_at \in {"initial_delay", "sleep"}
        => pc = "done" /\ ~ENABLED CycleStart

\* The task was cancelled in the sleep that follows a cycle.
C6_Witness ==
    /\ cancel_at = "sleep"
    /\ pc = "done"
    /\ cyc.outcome \in {"committed", "skipped", "failed"}

\* C7 as stated: once the task is cancelled inside a cycle, the loop neither
\* sleeps nor starts a cycle again.
C7_CancelInCycleEndsLoop ==
    cancel_at \in CyclePcs => pc \notin {"sleep", "cycle_start"} \cup CyclePcs

\* The task was cancelled while it awaited the fetch, and the loop sleeps.
C7_Witness ==
    /\ cancel_at = "fetch"
    /\ pc = "sleep"
    /\ sleep_kind = "default_2h"

\* C8: one cycle at a time, each followed by exactly one sleep. A cycle
\* starts only when nothing is left of the one before, whose sleep has
\* elapsed; while a cycle runs it has fetched at most once and no sleep has
\* begun; the sleep that follows it is its first; the loop ends only by
\* cancellation, and otherwise its next step is always possible.
C8_OneCycleThenOneSleep ==
    /\ pc = "cycle_start" => cyc = NoCycle /\ ENABLED CycleStart
    /\ pc \in CyclePcs
          => /\ cyc.outcome \in {"running", "committed"}
             /\ cyc.sleeps = 0
             /\ cyc.fetches = IF pc = "fetch" THEN 0 ELSE 1
    /\ pc = "finally"
          => /\ cyc.outcome \in {"skipped", "committed", "failed", "cancelled"}
             /\ cyc.sleeps = 0
             /\ ENABLED Finally
    /\ pc = "sleep" => cyc.sleeps = 1 /\ ENABLED SleepElapsed
    /\ pc = "done" => cancel_at # "none"

\* A cycle is fetching after an earlier cycle has changed the table.
C8_Witness ==
    /\ pc = "fetch"
    /\ cyc.pre.repos # [i \in SchedRepoIds |-> LocalRepo(i, {FAVORITE})]

\* Do the settings and the clock reading met at cycle entry ask for a skip?
SkipAsked(e) ==
    /\ e.settings # NoSettings
    /\ \/ ~e.settings.is_background_sync_enabled
       \/ ~e.settings.github_access_token
       \/ InWindow(e.settings.is_dnd_enabled, e.settings.dnd_start_hour,
                   e.settings.dnd_end_hour, e.now_time \div 60)

\* C9: a cycle entered with background sync off, without a token or inside
\* the quiet hours is skipped: it has fetched nothing, changed no item and no
\* counter value, sent nothing, triggered no AI run and holds no session,
\* and what follows it is the sleep.
C9_SkippedCycleIsNoOp ==
    /\ SkipAsked(cyc.entry) => cyc.outcome = "skipped" /\ pc = "finally"
    /\ cyc.outcome = "skipped"
          => /\ pc \in {"finally", "sleep", "done"}
             /\ cyc.fetches = 0
             /\ cyc.sends = <<>>
             /\ cyc.ai = "none"
             /\ sess = ClosedSession
             /\ pc = "finally" => PersistedIs(cyc.pre) /\ ENABLED Finally
             /\ pc = "done" => cancel_at = "sleep"

\* A cycle entered at 00:30 inside the quiet hours, with sync on and a token
\* set, has been skipped.
C9_Witness ==
    /\ pc = "finally"
    /\ cyc.outcome = "skipped"
    /\ cyc.entry.settings # NoSettings
    /\ cyc.entry.settings.is_background_sync_enabled
    /\ cyc.entry.settings.github_access_token
    /\ cyc.entry.now_time = TimeOfDay(0, 30)

(***************************************************************************)
(* Properties of the sleep computation.                                    *)
(***************************************************************************)
SleepRan == sleep_pc = "done"

\* Was the sleep computed with sync on, at a time inside the quiet hours?
SleepInQuietHours ==
    /\ sleep_in.settings.is_background_sync_enabled
    /\ InWindow(sleep_in.settings.is_dnd_enabled,
                sleep_in.settings.dnd_start_hour,
                sleep_in.settings.dnd_end_hour, sleep_in.now_time \div 60)

\* The first instant at or after now at which the clock shows the end hour.
FirstEndAtOrAfter(end_hour, now_time) ==
    IF now_time * 60 <= end_hour * SecondsPerHour
    THEN end_hour * SecondsPerHour
    ELSE end_hour * SecondsPerHour + SecondsPerDay

\* C11 as stated: a sleep computed with sync on at a time inside the quiet
\* hours lasts until the first occurrence of the end hour at or after now,
\* plus a jitter of 1 to 10 seconds, whether the window lies within one day
\* or wraps midnight.
C11_SleepUntilWindowEnd ==
    (SleepRan /\ SleepInQuietHours) =>
        /\ sleep_in.jitter \in 1..10
        /\ sleep_out = FirstEndAtOrAfter(sleep_in.settings.dnd_end_hour,
                                         sleep_in.now_time)
                           - sleep_in.now_time * 60 + sleep_in.jitter

\* At 10:00 in the window 9 to 18 the sleep computed is 32 hours and the
\* jitter: it ends at 18:00 of the next day.
C11_Witness ==
    /\ SleepRan
    /\ sleep_in.settings.is_background_sync_enabled
    /\ sleep_in.settings.is_dnd_enabled
    /\ sleep_in.settings.dnd_start_hour = 9
    /\ sleep_in.settings.dnd_end_hour = 18
    /\ sleep_in.now_time = TimeOfDay(10, 0)
    /\ sleep_out = 32 * SecondsPerHour + sleep_in.jitter

\* Would the next evaluation, now plus the sync interval, fall inside the
\* quiet hours?
NextEvaluationInQuietHours ==
    LET next == (sleep_in.now_time
                    + sleep_in.settings.sync_interval_hours * 60) % (24 * 60)
    IN  InWindow(sleep_in.settings.is_dnd_enabled,
                 sleep_in.settings.dnd_start_hour,
                 sleep_in.settings.dnd_end_hour, next \div 60)

\* C12 as stated: with sync on and the next evaluation inside the quiet
\* hours, the sleep is not the plain interval but lasts until an occurrence
\* of the end hour, plus jitter; otherwise it is the configured interval.
C12_SleepByNextEvaluation ==
    SleepRan =>
        IF /\ sleep_in.settings.is_background_sync_enabled
           /\ NextEvaluationInQuietHours
        THEN \E day \in {0, 1} :
                sleep_out = sleep_in.settings.dnd_end_hour * SecondsPerHour
                               + day * SecondsPerDay
                               - sleep_in.now_time * 60 + sleep_in.jitter
        ELSE sleep_out = sleep_in.settings.sync_interval_hours * SecondsPerHour

\* At 22:00, with the window 23 to 7 and an interval of 2 hours, the next
\* evaluation is at 00:00, inside the quiet hours, and the sleep computed is
\* the plain 2 hours.
C12_Witness ==
    /\ SleepRan
    /\ sleep_in.settings.is_background_sync_enabled
    /\ sleep_in.settings.is_dnd_enabled
    /\ sleep_in.settings.dnd_start_hour = 23
    /\ sleep_in.settings.dnd_end_hour = 7
    /\ sleep_in.settings.sync_interval_hours = 2
    /\ sleep_in.now_time = TimeOfDay(22, 0)
    /\ sleep_out = 2 * SecondsPerHour

(***************************************************************************)
(* Properties of the sleep that follows a failed cycle.                    *)
(***************************************************************************)
\* C13 as stated: the sleep that follows a cycle that failed with a fault,
\* its settings having been read, is computed from the settings (interval or
\* end of the quiet hours), not taken as the fixed 2 hours.
C13_FailedCycleSleepsBySettings ==
    (pc = "sleep" /\ cyc.outcome = "failed")
        => sleep_kind \in {"interval", "until_dnd_end"}

\* The fetch of a cycle has failed and the loop sleeps the 2 hour default.
C13_Witness ==
    /\ pc = "sleep"
    /\ cyc.outcome = "failed"
    /\ cyc.fault_at = "fetch"
    /\ sleep_kind = "default_2h"

(***************************************************************************)
(* Properties of the notifications of a cycle.                             *)
(***************************************************************************)
\* The favorites of the table the cycle met that the fetched list holds
\* with a change in one of the six listed fields.
Eligible ==
    LET remote == github_repos_map(cyc.fetched)
        pre == cyc.pre.repos
    IN  {i \in DOMAIN pre \cap DOMAIN remote :
            /\ FAVORITE \in pre[i].tags
            /\ \E f \in ListedSubstantive : pre[i][f] # remote[i][f]}

\* C14: the sends of a cycle are in flight for exactly the favorites with a
\* substantive update, and only with push enabled in the settings as stored
\* when they were re-read (the notifier being resolvable); when the sends are
\* over, the items a send was issued for are those, or none with push
\* disabled. No repo added or removed by the cycle, no repo changed in its
\* star count or starred_at only, no repo that is not a favorite is among
\* them.
C14_SendsAreFavoriteSubstantive ==
    /\ pc = "sending"
          => /\ cyc.reread_push
             /\ IdsOf(to_notify) = Eligible
             /\ Eligible # {}
    /\ pc = "commit"
          => DOMAIN cyc.sends = IF cyc.reread_push THEN Eligible ELSE {}

\* The sends of a cycle are in flight for one favorite, while the other
\* repo the cycle met has only its star count changed.
C14_Witness ==
    /\ pc = "sending"
    /\ IdsOf(to_notify) = {2}
    /\ 1 \in DOMAIN cyc.pre.repos
    /\ \E k \in DOMAIN cyc.fetched :
          /\ cyc.fetched[k].id = 1
          /\ cyc.fetched[k].stargazers_count # cyc.pre.repos[1].stargazers_count

C16_CounterOnlyResetDecreases ==
    [][db'.settings.failed_push_count < db.settings.failed_push_count
          => ResetCounter /\ db'.settings.failed_push_count = 0]_vars

\* The counter was reset while a cycle ran, and the commit of that cycle
\* has then raised it again.
C16_Witness ==
    /\ pc = "finally"
    /\ cyc.outcome = "committed"
    /\ cyc.reset
    /\ db.settings.failed_push_count > 0

\* C17: the sends of a cycle are decided on the settings as stored when the
\* reconciliation had been staged, not as read at cycle entry: sends are in
\* flight only with push enabled then, and a cycle with eligible items has
\* issued sends exactly if push was enabled then. The AI run starts exactly
\* if the AI switches are on in the settings as stored after the commit.
C17_DecisionsOnRereadSettings ==
    /\ pc = "sending" => cyc.reread_push
    /\ (pc = "commit" /\ Eligible # {})
          => (DOMAIN cyc.sends # {}) = cyc.reread_push
    /\ pc = "ai"
          => db.settings.is_ai_enabled /\ db.settings.is_auto_analysis_enabled
    /\ (pc = "finally" /\ cyc.outcome = "committed")
          => (cyc.ai # "none") = (/\ db.settings.is_ai_enabled
                                  /\ db.settings.is_auto_analysis_enabled)

\* Sends are in flight in a cycle that was entered with push disabled: push
\* was enabled through the API while the cycle fetched.
C17_Witness ==
    /\ pc = "sending"
    /\ ~cyc.entry_push
    /\ cyc.reread_push

(***************************************************************************)
(* The ids handed to the AI pipeline.                                      *)
(***************************************************************************)
\* The ids of the items this cycle's reconciliation found substantively
\* updated.
TouchedIds ==
    LET remote == github_repos_map(cyc.fetched)
    IN  {i \in DOMAIN cyc.pre.repos \cap DOMAIN remote :
            has_substantive_update(cyc.pre.repos[i], remote[i])}

\* C18: when the AI phase of a cycle runs, the ids it was handed as recently
\* updated contain the id of every item this cycle's reconciliation
\* updated.
C18_TouchedIdsHandedToAi ==
    pc = "ai" => TouchedIds \subseteq cyc.ai_ids

\* An AI phase runs in a cycle whose reconciliation updated an item.
C18_Witness ==
    /\ pc = "ai"
    /\ TouchedIds # {}
    /\ cyc.stats.updated = Cardinality(TouchedIds)

\* C19: the AI phase of a cycle runs only once the cycle has committed: the
\* persisted items and counter are then those the cycle staged. A fault or
\* a cancellation in the AI phase leaves them so. After a fault in the AI
\* phase the cycle has returned its settings to the loop, which sleeps and,
\* the sleep elapsed, starts the next cycle.
C19_AiPhaseAfterCommit ==
    /\ pc = "ai"
          => /\ cyc.outcome = "committed"
             /\ cyc.ai = "running"
             /\ PersistedIs(CommittedState)
    /\ (pc = "finally" /\ (cyc.ai = "fault" \/ cancel_at = "ai"))
          => /\ cyc.outcome = "committed"
             /\ PersistedIs(CommittedState)
    /\ cyc.ai = "fault"
          => \/ /\ pc = "finally"
                /\ app_settings # NoSettings
                /\ ~break_pending
                /\ ENABLED Finally
             \/ /\ pc = "sleep"
                /\ sleep_kind # "default_2h"
                /\ ENABLED (SleepElapsed /\ pc' = "cycle_start")
             \/ pc = "done" /\ cancel_at = "sleep"

\* The task was cancelled in the AI phase of a cycle that had committed a
\* change of the items and a counter increment.
C19_Witness ==
    /\ pc = "finally"
    /\ cancel_at = "ai"
    /\ cyc.ai = "running"
    /\ db.repos # cyc.pre.repos
    /\ db.settings.failed_push_count > cyc.pre.failed_push_count

\* The AI phase of a cycle that had committed a change of the items has
\* ended with a fault.
C19_FaultWitness ==
    /\ pc = "finally"
    /\ cyc.ai = "fault"
    /\ db.repos # cyc.pre.repos

(***************************************************************************)
(* Properties of the AI batch.                                             *)
(***************************************************************************)
\* The repos whose processing has raised a credential fault.
FatalProcessed ==
    {k \in ai_run.processed :
        ai_in.kind[k] \in {"invalid_api_key", "invalid_github_token"}}

\* The offset in the list at which the concurrency group of repo k starts.
GroupStartOf(k) ==
    LET b == ((k - 1) \div batch_size) * batch_size
    IN  b + (((k - 1) - b) \div ai_in.ai_concurrency) * ai_in.ai_concurrency

\* The error summarize_single_repo raises for a credential fault.
ErrorOf(kind) ==
    IF kind = "invalid_api_key" THEN "InvalidApiKeyError"
    ELSE "InvalidGitHubTokenError"

\* C20 as stated: once the processing of a repo has raised a credential
\* fault, no repo after it in the list is processed.
C20_NoItemAfterFatalProcessed ==
    \A j \in FatalProcessed : \A k \in ai_run.processed : k <= j

\* C20, amended: once the processing of a repo has raised a credential
\* fault, no repo of a later concurrency group or batch is started, while
\* the repos of its own group are all processed; when the group has been
\* gathered the function has raised the first credential fault of the group
\* in list order; and the row of every repo processed without a credential
\* fault is as its processing committed it, that of every other repo as it
\* was before the run.
C20_FatalAbort ==
    /\ \A j \in FatalProcessed : \A k \in ai_run.started :
          GroupStartOf(k) <= GroupStartOf(j)
    /\ (FatalProcessed # {} /\ ai_run.pc # "gather")
          => /\ ai_run.pc = "raised"
             /\ \E j \in FatalProcessed :
                   /\ \A f \in FatalProcessed : j <= f
                   /\ ai_run.raised = ErrorOf(ai_in.kind[j])
             /\ \A j \in FatalProcessed, k \in 1 .. ai_in.total :
                   GroupStartOf(k) = GroupStartOf(j) => k \in ai_run.processed
    /\ \A k \in DOMAIN ai_db :
          ai_db[k] = IF k \in ai_run.processed \ FatalProcessed
                     THEN summarize_single_repo(ai_in.before, ai_in.kind[k],
                                                ai_in.notifier).row
                     ELSE ai_in.before

\* The batch has raised the credential fault of its second repo: the first
\* repo, of an earlier group, keeps its committed summary, and the third
\* was never started.
C20_Witness ==
    /\ ai_run.pc = "raised"
    /\ ai_in.total = 3
    /\ FatalProcessed = {2}
    /\ ai_run.started = {1, 2}
    /\ ai_in.before = AnalyzedBefore
    /\ ai_db[1].ai_summary = "new"
    /\ ai_run.raised = "InvalidGitHubTokenError"

\* The batch has raised a credential fault.
FatalAbort ==
    /\ ai_run.pc = "raised"
    /\ ai_run.raised \in {"InvalidApiKeyError", "InvalidGitHubTokenError"}

\* C21: a batch that a credential fault has aborted has sent exactly one
\* error notice if a notifier is configured, and none otherwise.
C21_OneNoticePerAbort ==
    FatalAbort => ai_run.notices = IF ai_in.notifier THEN 1 ELSE 0

\* A batch was aborted after two repos of one concurrency group had hit a
\* credential fault, and two notices were sent.
C21_Witness ==
    /\ FatalAbort
    /\ ai_in.notifier
    /\ Cardinality(FatalProcessed) = 2
    /\ ai_run.notices = 2

\* The processed repos of the given kinds.
ProcessedOf(kinds) == {k \in ai_run.processed : ai_in.kind[k] \in kinds}

\* C22: a repo whose every AI call is rate-limited gets exactly 3 calls of
\* the backend (the other repos with a README get one, those without get
\* none); its processing returns False and raises nothing, it is marked
\* failed with no timestamp, and the batch goes on: it raises only for a
\* credential fault or a missing configuration, and when it returns every
\* repo has been processed.
C22_RateLimitedGivenUpAlone ==
    /\ ai_run.ai_calls =
          3 * Cardinality(ProcessedOf({"rate_limited"}))
          + Cardinality(ProcessedOf({"summarized", "endpoint_fault",
                                     "empty_content", "invalid_api_key",
                                     "unknown_error"}))
    /\ \A k \in ProcessedOf({"rate_limited"}) :
          /\ k \in DOMAIN ai_run.results => ai_run.results[k] = "False"
          /\ ai_db[k].analysis_failed
          /\ ai_db[k].analyzed_at = "none"
    /\ ai_run.pc = "raised" => FatalProcessed # {} \/ ai_in.config # "ok"
    /\ ai_run.pc = "returned"
          => /\ ai_run.processed = 1 .. ai_in.total
             /\ ai_run.success_count + ai_run.failed_count = ai_in.total
             /\ ai_run.failed_count >=
                   Cardinality(ProcessedOf({"rate_limited"}))

\* A batch has returned after a rate-limited repo was given up on and the
\* repos after it, of later groups, were summarized.
C22_Witness ==
    /\ ai_run.pc = "returned"
    /\ ai_in.total = 3
    /\ ai_in.ai_concurrency = 1
    /\ ai_in.kind = <<"rate_limited", "summarized", "summarized">>
    /\ ai_run.ai_calls = 5
    /\ ai_run.success_count = 2
    /\ ai_run.failed_count = 1
    /\ ai_db[3].ai_summary = "new"

\* C23: the row of a processed repo follows the error taxonomy. A summary:
\* summary and revision marker stored, timestamp set, failed flag clear. No
\* README: empty summary, timestamp set, failed flag clear. Rate limit
\* exhausted, AI endpoint or network fault, README fetch fault: failed flag
\* set, timestamp null. Empty or too short AI answer: failed flag set,
\* timestamp set. Credential fault: the row is as it was.
C23_OutcomeByTaxonomy ==
    \A k \in ai_run.processed :
       LET kind == ai_in.kind[k]
           row == ai_db[k]
       IN  /\ kind = "summarized"
                => /\ row.ai_summary = "new"
                   /\ row.analyzed_at = "now"
                   /\ ~row.analysis_failed
                   /\ row.readme_sha = "new"
           /\ kind = "no_readme"
                => /\ row.ai_summary = "none"
                   /\ row.analyzed_at = "now"
                   /\ ~row.analysis_failed
           /\ kind \in {"rate_limited", "endpoint_fault", "github_fault"}
                => /\ row.analysis_failed
                   /\ row.analyzed_at = "none"
           /\ kind = "empty_content"
                => /\ row.analysis_failed
                   /\ row.analyzed_at = "now"
           /\ kind \in {"invalid_api_key", "invalid_github_token"}
                => row = ai_in.before

\* A batch over repos analyzed before has returned: the AI answer of the
\* first was empty, the README fetch of the second failed, the third has
\* no README.
C23_Witness ==
    /\ ai_run.pc = "returned"
    /\ ai_in.before = AnalyzedBefore
    /\ ai_in.kind = <<"empty_content", "github_fault", "no_readme">>
    /\ ai_db[1].analyzed_at = "now"
    /\ ai_db[2].analyzed_at = "none"
    /\ ai_db[3].ai_summary = "none"

\* The kinds whose condition is neither a success nor a credential fault.
NonFatalFailures ==
    {"rate_limited", "endpoint_fault", "empty_content", "github_fault",
     "unknown_error"}

\* C25: what leaves the processing of a repo is an exception for a
\* credential fault only; for a rate limit, an AI endpoint or network
\* fault, an empty answer, a README fetch fault or an unknown error it is
\* the boolean False, which the batch counts as one failure each before it
\* goes on: a batch that returns has processed every repo and counted as
\* failed exactly those repos.
C25_OnlyFatalEscapes ==
    /\ \A k \in DOMAIN ai_run.results :
          /\ ai_in.kind[k] \in NonFatalFailures => ai_run.results[k] = "False"
          /\ ai_in.kind[k] \in {"summarized", "no_readme"}
                => ai_run.results[k] = "True"
          /\ ai_run.results[k] \notin {"True", "False"}
                => /\ k \in FatalProcessed
                   /\ ai_run.results[k] = ErrorOf(ai_in.kind[k])
    /\ ai_run.pc = "returned"
          => /\ ai_run.processed = 1 .. ai_in.total
             /\ ai_run.failed_count = Cardinality(ProcessedOf(NonFatalFailures))
             /\ ai_run.success_count =
                   Cardinality(ProcessedOf({"summarized", "no_readme"}))
    /\ (ai_run.pc = "raised" /\ ai_in.config = "ok") => FatalAbort

\* A batch has returned after an AI endpoint fault and an unknown error,
\* counted as two failures, and a summary after them.
C25_Witness ==
    /\ ai_run.pc = "returned"
    /\ ai_in.kind = <<"endpoint_fault", "unknown_error", "summarized">>
    /\ ai_in.ai_concurrency = 2
    /\ ai_run.failed_count = 2
    /\ ai_run.success_count = 1

\* The tasks that are in flight.
InFlight ==
    IF ai_run.pc = "gather" THEN ai_run.group \ DOMAIN ai_run.results ELSE {}

\* The batch of repo k, counted from 0.
BatchOf(k) == (k - 1) \div batch_size

\* C28: never are more tasks in flight than ai_concurrency, which is 5 at
\* most; the repos are started in list order, and those of a group belong
\* to one batch; a group is started only when no task of an earlier group
\* is unfinished and, after the first group, when the delay has been
\* slept: that between groups inside a batch, that between batches at the
\* start of a batch.
C28_WorkerBound ==
    /\ Cardinality(InFlight) <= ai_in.ai_concurrency
    /\ ai_in.ai_concurrency <= 5
    /\ ai_run.started = 1 .. Cardinality(ai_run.started)
    /\ \A j, k \in ai_run.group : BatchOf(j) = BatchOf(k)
    /\ ai_run.started \ ai_run.group \subseteq ai_run.processed
    /\ ai_run.pc = "delay" => ai_run.started = ai_run.processed
    /\ ai_run.pc = "group"
          => /\ ai_run.started = ai_run.processed
             /\ ai_run.delay = IF ai_run.started = {} THEN 0
                               ELSE IF ai_run.i = 0 THEN BatchDelaySeconds
                               ELSE GroupDelaySeconds
             /\ ai_run.batch_idx + ai_run.i = Cardinality(ai_run.started)

\* The second batch is about to start: the fifty repos of the first have
\* been processed and the delay between batches has been slept.
C28_Witness ==
    /\ ai_run.pc = "group"
    /\ ai_run.batch_idx = batch_size
    /\ ai_run.processed = 1 .. batch_size
    /\ ai_run.delay = BatchDelaySeconds
    /\ ai_in.ai_concurrency = 3

\* C29: a batch called with repos but with the AI backend URL or model
\* empty, or without a GitHub token, raises at once: no repo is started or
\* processed, neither the AI backend nor the README fetcher is called, no
\* row changes, and the configuration-error notice is sent if and only if a
\* notifier is configured.
C29_ConfigMissingAborts ==
    (ai_in.total > 0 /\ ai_in.config # "ok" /\ ai_run.pc # "start")
        => /\ ai_run.pc = "raised"
           /\ ai_run.raised = "Exception"
           /\ ai_run.started = {}
           /\ ai_run.processed = {}
           /\ ai_run.ai_calls = 0
           /\ ai_run.readme_fetches = 0
           /\ \A k \in DOMAIN ai_db : ai_db[k] = ai_in.before
           /\ ai_run.notices = IF ai_in.notifier THEN 1 ELSE 0

\* A batch over one repo has raised for the missing GitHub token and sent
\* its notice.
C29_Witness ==
    /\ ai_run.pc = "raised"
    /\ ai_in.total = 1
    /\ ai_in.config = "token_missing"
    /\ ai_in.notifier
    /\ ai_run.notices = 1

(***************************************************************************)
(* Properties of the candidate selection.                                  *)
(***************************************************************************)
\* get_repos_to_summarize has returned, called in the mode given.
Selected(mode) == sel_pc = "done" /\ sel_in.mode = mode

\* The repo is in retryable-failure state: failed, no timestamp.
RetryableFailure(i) ==
    sel_in.table[i].analysis_failed /\ sel_in.table[i].analyzed_at = "none"

\* The README lookup of the repo succeeds and finds a README whose sha is
\* not the stored one.
LiveMarkerIsNew(i) ==
    /\ sel_in.live[i] \notin {"fault", "none"}
    /\ sel_in.live[i] # sel_in.table[i].readme_sha

C26_AutoCandidates ==
    Selected("auto")
        => sel_out.repos =
              {i \in DOMAIN sel_in.table :
                  \/ sel_in.table[i].analyzed_at = "none"
                  \/ /\ i \in sel_in.updated_repo_ids
                     /\ sel_in.live[i] # "fault"
                     /\ sel_in.live[i] # sel_in.table[i].readme_sha}

\* C26, amended: in mode auto the repos selected are those with no
\* timestamp and, when a GitHub token is stored, those of the updated ids
\* that have a timestamp and whose README lookup succeeds and finds a
\* README with a sha that is not the stored one (none stored included). An
\* updated repo is not selected when the sha is the stored one, when the
\* README is gone, when the lookup fails or when no token is stored.
C26_AutoCandidatesWithLookup ==
    Selected("auto")
        => /\ sel_out.repos =
                 {i \in DOMAIN sel_in.table :
                     \/ sel_in.table[i].analyzed_at = "none"
                     \/ /\ i \in sel_in.updated_repo_ids
                        /\ sel_in.token
                        /\ LiveMarkerIsNew(i)}
           /\ \A i \in DOMAIN sel_out.readme_cache :
                 sel_out.readme_cache[i] = sel_in.live[i]

\* An auto run has selected an updated repo analyzed with no README that
\* has one now, and has left out an updated repo whose README is the one
\* analyzed.
C26_Witness ==
    /\ Selected("auto")
    /\ sel_in.token
    /\ \E i, j \in sel_in.updated_repo_ids \cap DOMAIN sel_in.table :
          /\ sel_in.table[i].analyzed_at # "none"
          /\ sel_in.table[i].readme_sha = "none"
          /\ sel_in.live[i] = "new"
          /\ i \in sel_out.repos
          /\ sel_in.table[j].readme_sha = "old"
          /\ sel_in.live[j] = "old"
          /\ j \notin sel_out.repos

\* C27: an auto run with no updated ids over a table in which every repo
\* has a timestamp selects nothing and looks up no README; called with the
\* empty list the batch returns at its first test, before any call.
C27_NothingToDo ==
    (/\ Selected("auto")
     /\ sel_in.updated_repo_ids = {}
     /\ \A i \in DOMAIN sel_in.table : sel_in.table[i].analyzed_at # "none")
        => /\ sel_out.repos = {}
           /\ sel_out.lookups = 0
           /\ DOMAIN sel_out.readme_cache = {}
           /\ \A config \in {"ok", "ai_missing", "token_missing"} :
                 check_config(Cardinality(sel_out.repos), config) = "return"

\* An auto run with no updated ids has selected nothing although the
\* README of an analyzed repo has changed.
C27_Witness ==
    /\ Selected("auto")
    /\ sel_in.updated_repo_ids = {}
    /\ sel_in.token
    /\ DOMAIN sel_in.table = {1, 2}
    /\ \A i \in DOMAIN sel_in.table : sel_in.table[i].analyzed_at # "none"
    /\ sel_in.table[1].readme_sha = "old"
    /\ sel_in.live[1] = "new"
    /\ sel_out.repos = {}

(***************************************************************************)
(* Properties of the GitHub client's request.                              *)
(***************************************************************************)
\* The answer is a 5xx response or a network-level fault.
ServerSideFault(answer) ==
    answer.kind = "network" \/ answer.status >= 500

\* The request has ended, by a return or by an exception.
RequestEnded == req_run.pc \in {"returned", "raised"}

\* C30: a request is tried 3 times at most. It ends at the first answer
\* that is not a 5xx or a network-level fault: a 401 raises the
\* unauthenticated ApiException, any other 4xx raises its HTTP error, both
\* without a retry behind them; when a 5xx or a network-level fault is
\* answered every time, the fault of the third try leaves.
C30_RetryPolicy ==
    /\ req_run.tries <= 3
    /\ \A t \in 1 .. req_run.tries - 1 : ServerSideFault(req_in[t])
    /\ req_run.pc = "backoff" => ServerSideFault(req_in[req_run.tries])
    /\ RequestEnded
          => LET last == req_in[req_run.tries]
             IN  /\ ServerSideFault(last)
                       => /\ req_run.tries = 3
                          /\ req_run.pc = "raised"
                          /\ req_run.outcome.type \in
                                {"HTTPStatusError", "RequestError"}
                 /\ (last.kind = "response" /\ last.status = 401)
                       => /\ req_run.pc = "raised"
                          /\ req_run.outcome.type = "ApiException"
                 /\ (last.kind = "response" /\ last.status \in {403, 404})
                       => /\ req_run.pc = "raised"
                          /\ req_run.outcome =
                                [type |-> "HTTPStatusError",
                                 status |-> last.status]
                 /\ (last.kind = "response" /\ last.status = 200)
                       => req_run.pc = "returned"
    /\ (RequestEnded /\ ~ServerSideFault(req_in[1])) => req_run.tries = 1

\* A request answered 500, a network fault and 503 has raised after its
\* third try.
C30_Witness ==
    /\ req_run.pc = "raised"
    /\ req_run.tries = 3
    /\ req_in[1] = Response(500)
    /\ req_in[2] = NetworkFault
    /\ req_in[3] = Response(503)
    /\ req_run.outcome = [type |-> "HTTPStatusError", status |-> 503]
(***************************************************************************)
(* Properties of the notify block.                                         *)
(***************************************************************************)
\* The refreshed settings of the notify block, with the config as
\* get_decrypted_push_config gives it.
NotifySettings ==
    [notify_run.settings EXCEPT !.push_config =
        get_decrypted_push_config(notify_run.stored_config)]

\* The cases in which the factory is to give no notifier.
NoNotifierCase(s) ==
    \/ ~s.is_push_enabled
    \/ s.push_channel = "none"
    \/ s.push_channel \notin {"webhook", "gotify", "bark", "serverchan"}
    \/ ~s.push_config

\* C31: the factory gives no notifier when push is disabled, no channel is
\* selected, the channel name is unknown or the channel config is empty,
\* and it gives one otherwise; a cycle that gets no notifier makes no send,
\* leaves the failed-push counter as it was and still commits what the
\* reconciliation staged.
C31_NoNotifierIsSoft ==
    /\ create_notifier(NotifySettings) = ~NoNotifierCase(NotifySettings)
    /\ notify_run.notifier = "None" =>
          /\ NoNotifierCase(NotifySettings)
          /\ notify_run.pc \in {"commit", "done"}
          /\ notify_run.composed = <<>>
          /\ notify_run.results = <<>>
          /\ notify_run.failed_push_count =
                notify_run.settings.failed_push_count
          /\ notify_run.pc = "done" =>
                /\ notify_run.committed.staged
                /\ notify_run.committed.failed_push_count =
                      notify_run.settings.failed_push_count
    /\ notify_run.notifier = "notifier" => ~NoNotifierCase(NotifySettings)

\* A cycle with push enabled and a favorite to notify about, whose channel
\* name the factory does not know, has committed.
C31_Witness ==
    /\ notify_run.pc = "done"
    /\ notify_run.notifier = "None"
    /\ notify_run.settings.is_push_enabled
    /\ notify_run.settings.push_channel = "telegram"
    /\ notify_run.stored_config = "config"
    /\ notify_run.committed.staged

(***************************************************************************)
(* Properties of the notification channels.                                *)
(***************************************************************************)
\* A required key of the channel is not in the config, or is null or empty.
RequiredMissing ==
    \E k \in RequiredKeys(send_run.channel) :
       send_run.config[k] \in {"absent", "null", "empty"}

\* C32: for each of the four channels, send on a config in which a required
\* field is missing returns False, raises nothing to its caller and makes
\* no network request.
C32_MissingFieldReturnsFalse ==
    (send_run.pc = "done" /\ RequiredMissing) =>
        /\ send_run.result.returned = "False"
        /\ send_run.result.requests = 0

\* The send of the Bark channel, with no device key in the config, is over.
C32_Witness ==
    /\ send_run.pc = "done"
    /\ send_run.channel = "bark"
    /\ send_run.config["key"] = "absent"
    /\ send_run.result.requests = 0

(***************************************************************************)
(* Properties of the test push.                                            *)
(***************************************************************************)
\* The update brings a channel or a config other than the stored one, and
\* push is enabled in the settings that result.
TestPushDue ==
    /\ push_test.updated.is_push_enabled
    /\ \/ /\ push_test.update_data.push_channel.set
          /\ push_test.update_data.push_channel.value #
                push_test.db.push_channel
       \/ /\ push_test.update_data.push_config.set
          /\ push_test.update_data.push_config.value #
                push_test.db.push_config

\* C33: a settings update that changes the push channel or its config while
\* push is enabled in the resulting settings makes a test send before it
\* answers; a test send that fails, by returning False or by raising, is
\* tried again, up to 2 attempts; the outcome is in the response; the
\* failed-push counter is left as it was.
C33_TestPushRetried ==
    push_test.pc = "commit" =>
        /\ push_test.updated.failed_push_count =
              push_test.db.failed_push_count
        /\ (TestPushDue /\ push_test.notifier = "notifier") =>
              /\ push_test.tries \in 1 .. TestPushMaxTries
              /\ push_test.returned[1] # "True" =>
                    push_test.tries = TestPushMaxTries
              /\ push_test.test_push_status =
                    IF push_test.returned[push_test.tries] = "True"
                    THEN "success" ELSE "failed"
              /\ push_test.test_push_status = "failed" =>
                    push_test.test_push_error # "none"
        /\ (TestPushDue /\ push_test.notifier = "None") =>
              /\ push_test.test_push_status = "failed"
              /\ push_test.test_push_error = "no_notifier"

\* C33, amended: such an update makes a test send before it answers when
\* the factory gives a notifier for the resulting settings, and reports the
\* failure without a send when it gives none; a test send that raises is
\* tried once more, one that returns (True or False) is not tried again; the
\* outcome of the last try is in the response; the failed-push counter is
\* left as it was.
C33_TestPushRetriedOnRaise ==
    /\ push_test.pc \in {"commit", "done"} =>
          /\ push_test.updated.failed_push_count =
                push_test.db.failed_push_count
          /\ push_test.committed.failed_push_count =
                push_test.db.failed_push_count
          /\ (TestPushDue /\ push_test.notifier = "notifier") =>
                /\ push_test.tries \in 1 .. TestPushMaxTries
                /\ push_test.tries = TestPushMaxTries <=>
                      push_test.returned[1] \notin {"True", "False"}
                /\ push_test.test_push_status =
                      IF push_test.returned[push_test.tries] = "True"
                      THEN "success" ELSE "failed"
                /\ push_test.test_push_error =
                      CASE push_test.returned[push_test.tries] = "True" ->
                               "none"
                        [] push_test.returned[push_test.tries] = "False" ->
                               "returned_false"
                        [] OTHER -> "exception"
          /\ (TestPushDue /\ push_test.notifier = "None") =>
                /\ push_test.tries = 0
                /\ push_test.test_push_status = "failed"
                /\ push_test.test_push_error = "no_notifier"
          /\ ~TestPushDue =>
                /\ push_test.tries = 0
                /\ push_test.test_push_status = "none"
    /\ push_test.notifier # "unset" => TestPushDue

\* A test send that raised was tried again, and the update is answered with
\* the failure.
C33_Witness ==
    /\ push_test.pc = "done"
    /\ push_test.tries = TestPushMaxTries
    /\ push_test.returned[1] = "AttributeError"
    /\ push_test.test_push_status = "failed"
    /\ push_test.response = "200"

C35_AcceptedSummaryLength ==
    sum_text.pc = "done" =>
        /\ sum_text.result.outcome = "summary" =>
              /\ text_len(text_strip(sum_text.result.summary)) >=
                    MinSummaryLen
              /\ text_len(text_strip(sum_text.result.summary)) <=
                    MaxSummaryLen
        /\ text_len(text_strip(sum_text.content)) < MinSummaryLen =>
              sum_text.result.outcome = "EmptyContentError"

\* An answer of more than 400 characters was accepted and cut.
C35_Witness ==
    /\ sum_text.pc = "done"
    /\ text_len(sum_text.content) > MaxSummaryLen
    /\ sum_text.result.outcome = "summary"
    /\ text_len(sum_text.result.summary) < text_len(sum_text.content)

\* The ids whose notifications the cycle has sent are ids of rows that were
\* in the table before the cycle and that the reconciliation changes.
SentAreStagedUpdates ==
    LET after == ReconciledTable(cyc.pre.repos, cyc.fetched)
    IN  \A i \in DOMAIN cyc.sends :
           /\ i \in DOMAIN cyc.pre.repos
           /\ i \in DOMAIN after
           /\ after[i] # cyc.pre.repos[i]

\* C36 as stated: no cycle that has sent notifications ends with its
\* reconciliation changes rolled back.
C36_SentUpdatesCommitted ==
    (pc = "finally" /\ cyc.sends # <<>>) => cyc.outcome = "committed"

\* C36, amended: every notification sent in a cycle reports an update the
\* cycle has staged, and a fault in the composition of a message leaves the
\* cycle before any send. The sends come before the commit: when the commit
\* faults after them the staged changes are rolled back, the table is that
\* of before the cycle, and the sent notifications stay sent; when the
\* commit succeeds the table holds the updates that were reported.
C36_SentUpdatesStagedThenCommitOrRollback ==
    /\ cyc.sends # <<>> => cyc.staged /\ SentAreStagedUpdates
    /\ cyc.fault_at = "notify" => cyc.sends = <<>>
    /\ (pc = "finally" /\ cyc.outcome = "failed" /\ cyc.sends # <<>>)
          => /\ cyc.fault_at = "commit"
             /\ db.repos = cyc.pre.repos
    /\ (pc \in {"ai", "finally"} /\ cyc.outcome = "committed"
            /\ cyc.sends # <<>>)
          => db.repos = ReconciledTable(cyc.pre.repos, cyc.fetched)

\* A notification went out and the commit that followed has failed.
C36_Witness ==
    /\ pc = "finally"
    /\ cyc.outcome = "failed"
    /\ cyc.fault_at = "commit"
    /\ \E i \in DOMAIN cyc.sends : cyc.sends[i] = "ok"
    /\ db.repos = cyc.pre.repos

(***************************************************************************)
(* Properties of the manual sync and its paged fetch.                      *)
(***************************************************************************)
\* The probe or a page request of the current request has failed.
FetchFailed ==
    fetch_all.raised \in {"AUTH_INVALID_TOKEN", "GITHUB_API_PROBE_FAILED",
                          "GITHUB_SYNC_FAILED"}

\* C37: a reconciliation is staged only against a complete fetch. When the
\* probe or a page request fails, the fetch fails as a whole, nothing is
\* staged and the table stays as it was; what is staged, and what is
\* committed, was diffed against every item of the remote list, so a row is
\* removed only when its repository is not in the remote list.
C37_StagedOnlyAgainstCompleteFetch ==
    /\ FetchFailed
          => /\ fetch_all.outcome = "failed"
             /\ ~fetch_all.staged
             /\ fetch_all.ops = NoDiff
             /\ fetch_all.session = <<>>
             /\ fetch_all.table = fetch_all.pre
    /\ fetch_all.staged
          => /\ \A p \in DOMAIN fetch_all.pages : fetch_all.pages[p].done
             /\ IdsOf({fetch_all.data[k] : k \in DOMAIN fetch_all.data})
                   = StarredIds(fetch_all.raw)
             /\ fetch_all.ops.to_remove_ids \cap StarredIds(fetch_all.raw)
                   = {}
    /\ \A i \in DOMAIN fetch_all.pre \ DOMAIN fetch_all.table :
          i \notin StarredIds(fetch_all.raw)

\* A page of a list of several pages has answered, another has failed, and
\* the request has ended with the table as it was; a row of the table is of
\* a repository that only the failed part of the list holds.
C37_Witness ==
    /\ fetch_all.raised = "GITHUB_SYNC_FAILED"
    /\ fetch_all.total_pages > 1
    /\ \E p \in DOMAIN fetch_all.pages : fetch_all.pages[p].done
    /\ \E i \in DOMAIN fetch_all.table :
          /\ i \in StarredIds(fetch_all.raw)
          /\ \A p \in DOMAIN fetch_all.pages :
                fetch_all.pages[p].done
                   => i \notin StarredIds(fetch_all.pages[p].items)
    /\ fetch_all.table = fetch_all.pre

\* The rows of repositories that have been in the remote list of every
\* committed reconciliation so far keep, in the table t, the columns that a
\* reconciliation is not to write.
FrameHolds(t) ==
    \A i \in fetch_all.kept :
       /\ i \in DOMAIN t
       /\ DOMAIN t[i] = DOMAIN fetch_all.first[i]
       /\ \A f \in DOMAIN t[i] \ SyncedFields :
             t[i][f] = fetch_all.first[i][f]

\* C38: reconciliation frame. Whatever the number of reconciliations, the
\* alias, the notes, the tags and the analysis columns of a row whose
\* repository stays in the remote list are those it had, in the table and
\* in what a reconciliation has staged: only the eight synced columns
\* change.
C38_ReconciliationFrame ==
    /\ FrameHolds(fetch_all.table)
    /\ (fetch_all.staged
          /\ fetch_all.kept \subseteq StarredIds(fetch_all.raw))
          => FrameHolds(fetch_all.session)

\* Two reconciliations have been committed that changed a synced column of
\* an edited row, which is still there with its user columns.
C38_Witness ==
    /\ fetch_all.outcome = "committed"
    /\ 1 \in fetch_all.kept
    /\ fetch_all.pre[1] # fetch_all.first[1]
    /\ fetch_all.table[1] # fetch_all.pre[1]
    /\ fetch_all.table[1].alias = 1
    /\ fetch_all.table[1].ai_summary = 1

\* C39 as stated: a sync that faults after the reconciliation and is rolled
\* back leaves the in-memory timestamp of the last successful sync at its
\* previous value.
C39_TimestampOnlyForCommittedSync ==
    fetch_all.outcome \in {"failed", "rolled_back"}
        => fetch_all.sync_at = "previous"

\* A sync has been rolled back after run_full_sync had returned.
C39_Witness ==
    /\ fetch_all.outcome = "rolled_back"
    /\ fetch_all.table = fetch_all.pre
    /\ fetch_all.ops.to_remove_ids # {}

(***************************************************************************)
(* Properties of the manual summary task.                                  *)
(***************************************************************************)
\* C40: at most one manually started summary task at a time. Whatever the
\* order in which the requests arrive, their bodies run and the tasks start
\* and end: at most one background task is scheduled or running; a request
\* with an accepted mode whose body runs while a task is scheduled or
\* running is answered with the conflict TASK_ALREADY_RUNNING and schedules
\* no task; and the flag is_running is true exactly while a task is
\* scheduled or running, so it is false again once the task has ended,
\* completed or raised.
C40_OneSummaryTaskAtATime ==
    /\ Cardinality(LiveTasks(task.tasks)) <= 1
    /\ \A r \in Requests :
          (task.reqs[r].pc = "done" /\ task.reqs[r].during)
             => /\ task.reqs[r].response = "TASK_ALREADY_RUNNING"
                /\ task.tasks[r] = "none"
    /\ task.status.is_running = (LiveTasks(task.tasks) # {})

\* A request was rejected while a task was live, one task has raised and
\* another has completed, and the flag is false.
C40_Witness ==
    /\ \E r \in Requests :
          /\ task.reqs[r].during
          /\ task.reqs[r].response = "TASK_ALREADY_RUNNING"
    /\ \E r \in Requests : task.tasks[r] = "raised"
    /\ \E r \in Requests : task.tasks[r] = "completed"
    /\ ~task.status.is_running
====
